---- MODULE Spec2Model ----
(***************************************************************************)
(* Restaurant booking back end: the time-slot allocation service           *)
(* (services/timeSlotService.ts over models/TimeSlot.ts), the booking      *)
(* controllers that use it, and the nearest-slot search.                   *)
(*                                                                         *)
(* A clock time "HH:MM" is the pair <<hours, minutes>>.  The model follows *)
(* the buckets of one calendar date; a bucket is keyed by its time.        *)
(* Every `await` of the code is a step boundary: a call reads the store in *)
(* one step and writes it in a later one, and other calls may run between. *)
(***************************************************************************)
EXTENDS Integers, Sequences, FiniteSets, TLC

\* ------------------------------------------------------------------ bounds
NumProcs == 2
MaxCalls == 2
MaxSeqCalls == 3
MaxBookingCalls == 3
NumIds == 2
SmallParty == 20
LargeParty == 30

\* ------------------------------------------------------- program constants
DEFAULT_CAPACITY == 50
SLOT_INTERVAL == 30
OPENING_TIME == <<11, 0>>
CLOSING_TIME == <<22, 0>>

Undefined == "undefined"

\* ------------------------------------------------------------ pure helpers
timeToMinutes(time) == time[1] * 60 + time[2]

minutesToTime(minutes) == <<minutes \div 60, minutes % 60>>

RECURSIVE SlotsFrom(_, _)
SlotsFrom(minutes, end) ==
  IF minutes > end THEN <<>>
  ELSE <<minutesToTime(minutes)>> \o SlotsFrom(minutes + SLOT_INTERVAL, end)

generateDaySlots == SlotsFrom(timeToMinutes(OPENING_TIME), timeToMinutes(CLOSING_TIME))

Range(s) == {s[i] : i \in DOMAIN s}

RECURSIVE FilterOut(_, _)
FilterOut(s, x) ==
  IF s = <<>> THEN <<>>
  ELSE IF Head(s) = x THEN FilterOut(Tail(s), x)
       ELSE <<Head(s)>> \o FilterOut(Tail(s), x)

Max(a, b) == IF a >= b THEN a ELSE b

\* --------------------------------------------------------------- the domain
\* the two buckets the calls address: the first two of the day
BucketTimes == {generateDaySlots[1], generateDaySlots[2]}
Procs == 1..NumProcs
Ids == 1..NumIds
GuestCounts == {SmallParty, LargeParty, DEFAULT_CAPACITY + 1}
Admins == {"admin1"}
Reasons == {Undefined, "maintenance"}

\* ------------------------------------------------- the TimeSlot document
\* `exists` tells a stored document from the absence of one (findOne -> null).
\* A bucket not created yet counts with the default capacity and nothing booked.
NullDoc ==
  [exists |-> FALSE, capacity |-> DEFAULT_CAPACITY, booked |-> 0, isBlocked |-> FALSE,
   blockedBy |-> Undefined, blockedReason |-> Undefined, bookingIds |-> <<>>]

newSlot_smallerCapacity ==
  [exists |-> TRUE, capacity |-> DEFAULT_CAPACITY - SmallParty, booked |-> 0,
   isBlocked |-> FALSE, blockedBy |-> Undefined, blockedReason |-> Undefined,
   bookingIds |-> <<>>]

\* the document getOrCreateSlot creates for a missing bucket
newSlot ==
  [exists |-> TRUE, capacity |-> DEFAULT_CAPACITY, booked |-> 0, isBlocked |-> FALSE,
   blockedBy |-> Undefined, blockedReason |-> Undefined, bookingIds |-> <<>>]

hasAvailability_strict(doc, guestCount) ==
  IF doc.isBlocked THEN FALSE
  ELSE doc.capacity - doc.booked > guestCount

hasAvailability(doc, guestCount) ==
  IF doc.isBlocked THEN FALSE
  ELSE doc.capacity - doc.booked >= guestCount

\* bookSeats: the document after the call and the value returned
bookSeats(doc, guestCount, bookingId) ==
  IF ~hasAvailability(doc, guestCount) THEN [doc |-> doc, ok |-> FALSE]
  ELSE [doc |-> [doc EXCEPT !.booked = @ + guestCount,
                            !.bookingIds = Append(@, bookingId)],
        ok |-> TRUE]

releaseSeats_noClamp(doc, guestCount, bookingId) ==
  [doc EXCEPT !.booked = @ - guestCount,
              !.bookingIds = FilterOut(@, bookingId)]

releaseSeats_keepId(doc, guestCount, bookingId) ==
  [doc EXCEPT !.booked = Max(0, @ - guestCount)]

releaseSeats(doc, guestCount, bookingId) ==
  [doc EXCEPT !.booked = Max(0, @ - guestCount),
              !.bookingIds = FilterOut(@, bookingId)]

\* blockSlot's assignments to the loaded document
blockFields(doc, adminId, reason) ==
  [doc EXCEPT !.isBlocked = TRUE,
              !.blockedBy = adminId,
              !.blockedReason = IF reason = Undefined THEN "Blocked by admin" ELSE reason]

\* unblockSlot's assignments to the loaded document
unblockFields(doc) ==
  [doc EXCEPT !.isBlocked = FALSE, !.blockedBy = Undefined, !.blockedReason = Undefined]

\* bookSlot between getOrCreateSlot and slot.save(): "save" or "failure"
bookSlotDecision(doc, guestCount, bookingId) ==
  IF ~hasAvailability(doc, guestCount) THEN "failure"
  ELSE IF ~bookSeats(doc, guestCount, bookingId).ok THEN "failure"
  ELSE "save"

saveModified_whole(cur, loaded, new) == new

\* document.save() of a loaded document: only the paths whose value was
\* changed since loading are written to the stored document
saveModified(cur, loaded, new) ==
  [f \in DOMAIN cur |-> IF new[f] # loaded[f] THEN new[f] ELSE cur[f]]

\* document.save() after bookSeats: booked is written as a value, the
\* bookingId is pushed onto the stored array
savePushed(cur, loaded, new, bookingId) ==
  [saveModified(cur, loaded, [new EXCEPT !.bookingIds = loaded.bookingIds])
     EXCEPT !.bookingIds = Append(cur.bookingIds, bookingId)]

\* ---------------------------------------------------------------- state
VARIABLES
  slots,     \* the TimeSlot collection: time of the day -> document or NullDoc
  calls,     \* per process: the call in flight (or the last one finished)
  stale,     \* per process: the loaded document's version is behind the stored one
  budget,    \* calls that may still be started
  reserved,  \* history: seats granted per bucket and bookingId, not yet released
  hist       \* history, as far as hist.keep says: "grants" keeps `reserved`,
             \* "calls" (calls run one at a time) also the bucket as the running
             \* call found it and the last two finished calls

slotVars == <<slots, calls, stale, budget, reserved, hist>>

VARIABLES
  bookings,  \* the Booking collection: bookingId -> document or NullBooking
  near       \* the last findNearestAvailableSlots call: inputs and result

VARIABLES
  summary,   \* the last getAvailabilitySummary call's result
  session    \* the agent controller's session of one sessionId, the turn in
             \* flight and the last response

dialogVars == <<summary, session>>

VARIABLE
  speech     \* the browser's speechService: its flags, the recognition and
             \* synthesis engines, the timers and speak calls pending

nonSlotVars == <<bookings, near, dialogVars, speech>>
vars == <<slotVars, nonSlotVars>>

AllTimes == Range(generateDaySlots)

IdleCall ==
  [op |-> "none", pc |-> "idle", time |-> OPENING_TIME, guests |-> 0, id |-> 0,
   admin |-> Undefined, arg |-> Undefined, doc |-> NullDoc, ret |-> "none"]

InitSlots ==
  /\ slots = [t \in AllTimes |-> NullDoc]
  /\ calls = [p \in Procs |-> IdleCall]
  /\ stale = [p \in Procs |-> FALSE]
  /\ reserved = [t \in BucketTimes |-> [i \in Ids |-> 0]]

NullBooking ==
  [exists |-> FALSE, numberOfGuests |-> 0, bookingTime |-> OPENING_TIME,
   status |-> Undefined]

NoNear == [called |-> FALSE, preferredTime |-> OPENING_TIME, guestCount |-> 0,
           maxResults |-> 0, result |-> <<>>]

\* no getAvailabilitySummary call yet; capacityUtilization is kept in
\* hundredths (35.5 is 3550)
NoSummary ==
  [called |-> FALSE, totalSlots |-> 0, availableSlots |-> 0, bookedSlots |-> 0,
   blockedSlots |-> 0, capacityUtilization |-> 0]

\* sessions.get(sessionId) of a sessionId not seen yet
NoSession == [exists |-> FALSE]

\* the speechService as its constructor leaves it, in a browser that has
\* speech recognition: not listening, not speaking, nothing pending
NoSpeech ==
  [isListening |-> FALSE, isSpeaking |-> FALSE, autoMode |-> FALSE,
   onResultCallback |-> FALSE, recognizing |-> FALSE, queued |-> 0, waiting |-> 0,
   interrupted |-> 0,
   timers |-> [recognitionEnd |-> 0, speechEnd |-> 0, speechError |-> 0],
   stopped |-> FALSE]

InitOthers ==
  /\ bookings = [i \in Ids |-> NullBooking]
  /\ near = NoNear
  /\ summary = NoSummary
  /\ session = NoSession
  /\ speech = NoSpeech

Init ==
  /\ InitSlots
  /\ budget = MaxCalls
  /\ InitOthers
  /\ hist = [keep |-> "none", pre |-> NullDoc, done |-> <<>>]

\* the history of finished calls; `in` is the running call with its
\* arguments, a call's `pre` is the bucket when the call started, its `post`
\* the bucket when it returned
Track(p, in) ==
  LET c == calls'[p]
      pre == IF calls[p].pc = "idle" THEN slots[in.time] ELSE hist.pre
      entry == [op |-> in.op, time |-> in.time, guests |-> in.guests, id |-> in.id,
                ret |-> c.ret, pre |-> pre, post |-> slots'[in.time]]
      all == Append(hist.done, entry) IN
  hist' = IF hist.keep # "calls" THEN hist
          ELSE [keep |-> "calls", pre |-> IF c.pc = "idle" THEN NullDoc ELSE pre,
                done |-> IF c.pc # "idle" THEN hist.done
                         ELSE IF Len(all) > 2 THEN Tail(all) ELSE all]

\* seats granted under a bookingId (n > 0) or given back (n = 0)
Granting(t, id, n) ==
  IF hist.keep = "none" THEN reserved
  ELSE [reserved EXCEPT ![t][id] = IF n = 0 THEN 0 ELSE @ + n]

\* a call returns: which operation on which bucket returned what stays readable
Return(c, result) ==
  [IdleCall EXCEPT !.op = c.op, !.time = c.time, !.ret = result]

\* the stored version moved: every other process that holds a loaded document
\* of the bucket and whose save depends on the version is now behind
Bumped(p, t) ==
  [q \in Procs |-> IF /\ q # p /\ calls[q].pc = "save" /\ calls[q].time = t
                      /\ calls[q].op \in {"release", "cancel"}
                   THEN TRUE ELSE stale[q]]

\* what a call does once getOrCreateSlot has handed it the document
AfterGet(c, doc) ==
  CASE c.op = "check" ->
         Return(c, IF hasAvailability(doc, c.guests) THEN "true" ELSE "false")
    [] c.op = "book" ->
         IF bookSlotDecision(doc, c.guests, c.id) = "save"
         THEN [c EXCEPT !.pc = "save", !.doc = doc]
         ELSE Return(c, "failure")
    [] c.op = "block" -> [c EXCEPT !.pc = "save", !.doc = doc]

\* the thrown error of getOrCreateSlot as each caller's catch turns it
\* (bookSlot: success false with the server-error message)
Thrown(c) ==
  CASE c.op = "check" -> Return(c, "false")
    [] c.op = "book" -> Return(c, "error")
    [] c.op = "block" -> Return(c, "false")

\* a new call starts and its findOne reads the store
Begin(p, in, c) ==
  /\ calls[p].pc = "idle"
  /\ budget > 0
  /\ budget' = budget - 1
  /\ stale' = [stale EXCEPT ![p] = FALSE]
  /\ calls' = [calls EXCEPT ![p] = c]
  /\ UNCHANGED <<slots, reserved>>
  /\ Track(p, in)
  /\ UNCHANGED nonSlotVars

NewCall(op, t, g, id, admin, arg) ==
  [IdleCall EXCEPT !.op = op, !.time = t, !.guests = g, !.id = id,
                   !.admin = admin, !.arg = arg]

\* getOrCreateSlot, first half: findOne
GetOrCreateFind(c) ==
  IF slots[c.time].exists THEN AfterGet(c, slots[c.time])
  ELSE [c EXCEPT !.pc = "insert"]

checkAvailability(p) ==
  \E t \in BucketTimes, g \in GuestCounts :
    LET in == NewCall("check", t, g, 0, Undefined, Undefined) IN Begin(p, in, GetOrCreateFind(in))

bookSlot(p) ==
  \E t \in BucketTimes, g \in GuestCounts, id \in Ids :
    LET in == NewCall("book", t, g, id, Undefined, Undefined) IN Begin(p, in, GetOrCreateFind(in))

blockSlot(p) ==
  \E t \in BucketTimes, a \in Admins, r \in Reasons :
    LET in == NewCall("block", t, 0, 0, a, r) IN Begin(p, in, GetOrCreateFind(in))

\* releaseSlot and unblockSlot use findOne alone: no bucket, nothing to do
FindOnly(c, missing) ==
  IF slots[c.time].exists THEN [c EXCEPT !.pc = "save", !.doc = slots[c.time]]
  ELSE Return(c, missing)

releaseSlot(p) ==
  \E t \in BucketTimes, g \in GuestCounts, id \in Ids :
    LET in == NewCall("release", t, g, id, Undefined, Undefined) IN
    Begin(p, in, FindOnly(in, "void"))

unblockSlot(p) ==
  \E t \in BucketTimes :
    LET in == NewCall("unblock", t, 0, 0, Undefined, Undefined) IN
    Begin(p, in, FindOnly(in, "false"))

\* getOrCreateSlot, second half: save of the new document; the unique index
\* on (date, time) rejects it when another call created the bucket meanwhile
InsertSlot(p) ==
  LET c == calls[p] IN
  /\ c.pc = "insert"
  /\ IF slots[c.time].exists
     THEN /\ calls' = [calls EXCEPT ![p] = Thrown(c)]
          /\ UNCHANGED slots
     ELSE /\ slots' = [slots EXCEPT ![c.time] = newSlot]
          /\ calls' = [calls EXCEPT ![p] = AfterGet(c, newSlot)]
  /\ UNCHANGED <<stale, budget, reserved>>
  /\ Track(p, calls[p])
  /\ UNCHANGED nonSlotVars

\* bookSlot: slot.save() after bookSeats
SaveBooked(p) ==
  LET c == calls[p]
      new == bookSeats(c.doc, c.guests, c.id).doc IN
  /\ c.pc = "save" /\ c.op = "book"
  /\ slots' = [slots EXCEPT ![c.time] = savePushed(@, c.doc, new, c.id)]
  /\ stale' = Bumped(p, c.time)
  /\ reserved' = Granting(c.time, c.id, c.guests)
  /\ calls' = [calls EXCEPT ![p] = Return(c, "success")]
  /\ UNCHANGED budget
  /\ Track(p, calls[p])
  /\ UNCHANGED nonSlotVars

\* releaseSlot: slot.save() after releaseSeats.  Replacing the bookingIds
\* array makes the save conditional on the loaded version; the version error
\* is caught and logged by releaseSlot, which returns normally either way.
\* Called directly, or by cancelBooking, which goes on to save the booking.
SaveReleased(p) ==
  LET c == calls[p]
      new == releaseSeats(c.doc, c.guests, c.id)
      arrayChanged == new.bookingIds # c.doc.bookingIds IN
  /\ c.pc = "save" /\ c.op \in {"release", "cancel"}
  /\ IF arrayChanged /\ stale[p]
     THEN UNCHANGED <<slots, stale, reserved>>
     ELSE /\ slots' = [slots EXCEPT ![c.time] = saveModified(@, c.doc, new)]
          /\ stale' = IF arrayChanged THEN Bumped(p, c.time) ELSE stale
          /\ reserved' = Granting(c.time, c.id, 0)
  /\ calls' = [calls EXCEPT ![p] = IF c.op = "release" THEN Return(c, "void")
                                   ELSE [c EXCEPT !.pc = "bsave", !.doc = NullDoc]]
  /\ UNCHANGED budget
  /\ Track(p, calls[p])
  /\ UNCHANGED nonSlotVars

\* blockSlot: slot.save() after the three assignments
SaveBlocked(p) ==
  LET c == calls[p] IN
  /\ c.pc = "save" /\ c.op = "block"
  /\ slots' = [slots EXCEPT ![c.time] =
                 saveModified(@, c.doc, blockFields(c.doc, c.admin, c.arg))]
  /\ calls' = [calls EXCEPT ![p] = Return(c, "true")]
  /\ UNCHANGED <<stale, budget, reserved>>
  /\ Track(p, calls[p])
  /\ UNCHANGED nonSlotVars

\* unblockSlot: slot.save() after the three assignments
SaveUnblocked(p) ==
  LET c == calls[p] IN
  /\ c.pc = "save" /\ c.op = "unblock"
  /\ slots' = [slots EXCEPT ![c.time] = saveModified(@, c.doc, unblockFields(c.doc))]
  /\ calls' = [calls EXCEPT ![p] = Return(c, "true")]
  /\ UNCHANGED <<stale, budget, reserved>>
  /\ Track(p, calls[p])
  /\ UNCHANGED nonSlotVars

SlotStep(p) ==
  \/ checkAvailability(p)
  \/ bookSlot(p)
  \/ releaseSlot(p)
  \/ blockSlot(p)
  \/ unblockSlot(p)
  \/ InsertSlot(p)
  \/ SaveBooked(p)
  \/ SaveReleased(p)
  \/ SaveBlocked(p)
  \/ SaveUnblocked(p)

Next == \E p \in Procs : SlotStep(p)

Spec == Init /\ [][Next]_vars

\* ------------------------------------------------------------------------
\* The booking controllers (bookingController.ts, the admin dashboard
\* controller, adminService.ts) over the Booking collection, with the slot
\* operations those controllers call: releaseSlot, blockSlot and unblockSlot.
MIN_GUESTS == 1
MAX_GUESTS == 20

BookingGuests == {MIN_GUESTS, MAX_GUESTS, MAX_GUESTS + 1}
Statuses == {"pending", "confirmed", "cancelled"}

FreeIds == {i \in Ids : ~bookings[i].exists}

\* a booking call starts; `b` is the Booking collection after its first step
BeginBooking(p, c, b) ==
  /\ calls[p].pc = "idle"
  /\ budget > 0
  /\ budget' = budget - 1
  /\ calls' = [calls EXCEPT ![p] = c]
  /\ bookings' = b
  /\ UNCHANGED <<slots, stale, reserved, hist, near, dialogVars, speech>>

\* POST /api/bookings: validation, then one save of a confirmed booking under
\* a fresh uuid
createBooking(p) ==
  \E t \in BucketTimes, g \in BookingGuests :
    /\ FreeIds # {}
    /\ LET id == CHOOSE i \in FreeIds : \A j \in FreeIds : i <= j
           c == NewCall("create", t, g, id, Undefined, Undefined) IN
       IF g < MIN_GUESTS \/ g > MAX_GUESTS
       THEN BeginBooking(p, Return(c, "400"), bookings)
       ELSE BeginBooking(p, Return(c, "201"),
              [bookings EXCEPT ![id] =
                 [exists |-> TRUE, numberOfGuests |-> g, bookingTime |-> t,
                  status |-> "confirmed"]])

\* DELETE /api/bookings/:id and AdminService.deleteBooking: findOneAndDelete
deleteBooking(p) ==
  \E id \in Ids :
    LET c == NewCall("delete", OPENING_TIME, 0, id, Undefined, Undefined) IN
    IF bookings[id].exists
    THEN BeginBooking(p, Return(c, "200"), [bookings EXCEPT ![id] = NullBooking])
    ELSE BeginBooking(p, Return(c, "404"), bookings)

\* PATCH /api/bookings/:id and AdminService.updateBookingStatus: findOneAndUpdate
updateBookingStatus(p) ==
  \E id \in Ids, st \in Statuses :
    LET c == NewCall("status", OPENING_TIME, 0, id, Undefined, st) IN
    IF bookings[id].exists
    THEN BeginBooking(p, Return(c, "200"), [bookings EXCEPT ![id].status = st])
    ELSE BeginBooking(p, Return(c, "404"), bookings)

\* the first step of cancelBooking and confirmBooking: Booking.findOne and the
\* two early returns; `c.arg` keeps the status as loaded
FoundBooking(op, id, next) ==
  LET b == bookings[id]
      c == NewCall(op, b.bookingTime, b.numberOfGuests, id, Undefined, b.status) IN
  IF ~b.exists THEN Return(c, "404")
  ELSE IF b.status = "cancelled" THEN Return(c, "400")
  ELSE [c EXCEPT !.pc = next]

cancelBooking(p) ==
  \E id \in Ids : BeginBooking(p, FoundBooking("cancel", id, "find"), bookings)

confirmBooking(p) ==
  \E id \in Ids : BeginBooking(p, FoundBooking("confirm", id, "bsave"), bookings)

\* cancelBooking: the findOne of releaseSlot
FindSlotToRelease(p) ==
  LET c == calls[p] IN
  /\ c.pc = "find" /\ c.op = "cancel"
  /\ calls' = [calls EXCEPT ![p] =
                 IF slots[c.time].exists
                 THEN [c EXCEPT !.pc = "save", !.doc = slots[c.time]]
                 ELSE [c EXCEPT !.pc = "bsave"]]
  /\ stale' = [stale EXCEPT ![p] = FALSE]
  /\ UNCHANGED <<slots, budget, reserved, hist, bookings, near, dialogVars, speech>>

\* cancelBooking and confirmBooking: booking.save() of the new status; the
\* save of a booking deleted meanwhile throws
SaveBooking(p) ==
  LET c == calls[p]
      st == IF c.op = "cancel" THEN "cancelled" ELSE "confirmed" IN
  /\ c.pc = "bsave"
  /\ IF ~bookings[c.id].exists
     THEN /\ calls' = [calls EXCEPT ![p] = Return(c, "500")]
          /\ UNCHANGED bookings
     ELSE /\ calls' = [calls EXCEPT ![p] = Return(c, "200")]
          /\ bookings' = IF st = c.arg THEN bookings
                         ELSE [bookings EXCEPT ![c.id].status = st]
  /\ UNCHANGED <<slots, stale, budget, reserved, hist, near, dialogVars, speech>>

BookingStep(p) ==
  \/ createBooking(p)
  \/ deleteBooking(p)
  \/ updateBookingStatus(p)
  \/ cancelBooking(p)
  \/ confirmBooking(p)
  \/ FindSlotToRelease(p)
  \/ SaveReleased(p)
  \/ SaveBooking(p)
  \/ blockSlot(p)
  \/ unblockSlot(p)
  \/ InsertSlot(p)
  \/ SaveBlocked(p)
  \/ SaveUnblocked(p)

BookingsNext == \E p \in Procs : BookingStep(p)

InitBookings ==
  /\ InitSlots
  /\ InitOthers
  /\ budget = MaxBookingCalls
  /\ hist = [keep |-> "none", pre |-> NullDoc, done |-> <<>>]

SpecBookings == InitBookings /\ [][BookingsNext]_vars

RECURSIVE SumGuests(_, _)
SumGuests(S, t) ==
  IF S = {} THEN 0
  ELSE LET i == CHOOSE j \in S : TRUE IN
       (IF bookings[i].exists /\ bookings[i].status = "confirmed"
           /\ bookings[i].bookingTime = t
        THEN bookings[i].numberOfGuests ELSE 0) + SumGuests(S \ {i}, t)

\* C3: for every bucket, booked equals the sum of numberOfGuests over the
\* confirmed bookings for that time.
C3_BookedMatchesBookings ==
  \A t \in BucketTimes : slots[t].booked = SumGuests(Ids, t)

\* ------------------------------------------------------------------------
\* Only bookSlot calls, from every process, on every bucket.
RaceStep(p) ==
  \/ bookSlot(p)
  \/ InsertSlot(p)
  \/ SaveBooked(p)

RaceNext == \E p \in Procs : RaceStep(p)

InitRace ==
  /\ InitSlots
  /\ budget = MaxCalls
  /\ InitOthers
  /\ hist = [keep |-> "grants", pre |-> NullDoc, done |-> <<>>]

SpecRace == InitRace /\ [][RaceNext]_vars

RECURSIVE SumOver(_, _)
SumOver(f, S) ==
  IF S = {} THEN 0
  ELSE LET x == CHOOSE y \in S : TRUE IN f[x] + SumOver(f, S \ {x})

\* seats granted on bucket t by the bookSlot calls that returned success
Granted(t) == SumOver(reserved[t], Ids)

\* the four fields of every bucket a reservation reads or writes
Fields ==
  [t \in AllTimes |->
     [booked |-> slots[t].booked, capacity |-> slots[t].capacity,
      isBlocked |-> slots[t].isBlocked, bookingIds |-> slots[t].bookingIds]]

\* process p takes a step of a call of one of the operations ops
StepOf(p, ops) == calls'[p] # calls[p] /\ calls'[p].op \in ops

\* process p's slot.save() of operation op takes effect in this step
SaveOf(p, op) == calls[p].pc = "save" /\ calls[p].op = op /\ calls'[p].pc = "idle"

\* C1: under any interleaving of bookSlot calls on a bucket, the guest counts
\* of the calls that returned success never sum to more than the capacity and
\* the stored booked never exceeds the capacity.
C1_AtomicReserve ==
  \A t \in BucketTimes :
    /\ Granted(t) <= slots[t].capacity
    /\ slots[t].booked <= slots[t].capacity

\* C2: every bucket satisfies 0 <= booked <= capacity in every reachable state.
C2_BookedInRange ==
  \A t \in AllTimes : 0 <= slots[t].booked /\ slots[t].booked <= slots[t].capacity

\* a bucket holds a large party and a bookSlot was refused for lack of seats
C2_Witness ==
  \E t \in BucketTimes, p \in Procs :
    /\ slots[t].booked >= LargeParty
    /\ calls[p].op = "book" /\ calls[p].pc = "idle" /\ calls[p].ret = "failure"
    /\ calls[p].time = t /\ ~slots[t].isBlocked

\* C4: a bookSlot call that returns failure changes no bucket field: every
\* step of a bookSlot call other than the one that returns success leaves
\* booked, bookingIds, isBlocked and capacity of every bucket as they were.
C4_FailedBookNoChange ==
  [][\A p \in Procs :
       (StepOf(p, {"book"}) /\ calls'[p].ret # "success") => Fields' = Fields]_vars

\* a bookSlot has returned failure on an existing bucket that is blocked or
\* has too few seats left
C4_Witness ==
  \E p \in Procs :
    /\ calls[p].op = "book" /\ calls[p].pc = "idle" /\ calls[p].ret = "failure"
    /\ slots[calls[p].time].exists
    /\ slots[calls[p].time].isBlocked \/ slots[calls[p].time].booked >= LargeParty

\* C7: releaseSlot for a bookingId decreases booked by exactly the guest count
\* reserved under that bookingId, whatever guest count the caller passes.
C7_ReleaseExact ==
  [][\A p \in Procs :
       SaveOf(p, "release") =>
         slots'[calls[p].time].booked =
           slots[calls[p].time].booked - reserved[calls[p].time][calls[p].id]]_vars

\* C8: no bookSlot is written to a bucket while the bucket is blocked.
C8_NoBookWhileBlocked ==
  [][\A p \in Procs :
       SaveOf(p, "book") => ~slots[calls[p].time].isBlocked]_vars

\* C9: blockSlot and unblockSlot leave booked, capacity and bookingIds of the
\* addressed bucket, and every other bucket, unchanged (a bucket that did not
\* exist counts with the default capacity and nothing booked).
C9_BlockFrame ==
  [][\A p \in Procs :
       StepOf(p, {"block", "unblock"}) =>
         \A t \in AllTimes :
           /\ slots'[t].booked = slots[t].booked
           /\ slots'[t].capacity = slots[t].capacity
           /\ slots'[t].bookingIds = slots[t].bookingIds
           /\ t # calls'[p].time => slots'[t] = slots[t]]_vars

\* C13: getOrCreateSlot never fails on a missing bucket and is idempotent:
\* the save of the new document succeeds and stores a bucket with capacity
\* 50, nothing booked, not blocked and no booking ids, and a call that finds
\* the bucket changes nothing.
C13_GetOrCreateIdempotent ==
  [][\A p \in Procs :
       /\ (calls[p].pc = "insert" /\ calls'[p].pc # "insert") =>
            /\ ~slots[calls[p].time].exists
            /\ slots'[calls[p].time] = newSlot
       /\ (/\ calls[p].pc = "idle" /\ calls'[p] # calls[p]
           /\ calls'[p].op \in {"check", "book", "block"}
           /\ slots[calls'[p].time].exists) => slots' = slots]_vars

\* a bucket with seats booked is blocked by a blockSlot that returned true
C9_Witness ==
  \E p \in Procs :
    /\ calls[p].op = "block" /\ calls[p].pc = "idle" /\ calls[p].ret = "true"
    /\ slots[calls[p].time].isBlocked
    /\ slots[calls[p].time].booked > 0

\* ------------------------------------------------------------------------
\* Calls run one at a time: one process, each call returns before the next
\* starts, and the history of finished calls is kept.
InitSeq ==
  /\ InitSlots
  /\ budget = MaxSeqCalls
  /\ InitOthers
  /\ hist = [keep |-> "calls", pre |-> NullDoc, done |-> <<>>]

SeqNext == SlotStep(1)

SpecSeq == InitSeq /\ [][SeqNext]_vars

\* C5: bookSlot returns success exactly when the bucket is not blocked and
\* capacity - booked >= guestCount; on success booked has grown by exactly
\* guestCount and the bookingId is among the bucket's bookingIds.
C5_BookContract ==
  \A i \in DOMAIN hist.done :
    LET e == hist.done[i] IN
    e.op = "book" =>
      /\ (e.ret = "success") <=>
           (~e.pre.isBlocked /\ e.pre.capacity - e.pre.booked >= e.guests)
      /\ e.ret = "success" =>
           /\ e.post.booked = e.pre.booked + e.guests
           /\ e.id \in Range(e.post.bookingIds)

\* a bookSlot took exactly the seats that were left, and one was refused
C5_Witness ==
  /\ \E i \in DOMAIN hist.done :
       /\ hist.done[i].op = "book" /\ hist.done[i].ret = "success"
       /\ hist.done[i].pre.booked > 0
  /\ \E i \in DOMAIN hist.done :
       /\ hist.done[i].op = "book" /\ hist.done[i].ret = "failure"

\* a successful bookSlot directly followed by releaseSlot with the same bucket,
\* guest count and bookingId
BookThenRelease ==
  /\ Len(hist.done) = 2
  /\ hist.done[1].op = "book" /\ hist.done[1].ret = "success"
  /\ hist.done[2].op = "release"
  /\ hist.done[2].time = hist.done[1].time
  /\ hist.done[2].guests = hist.done[1].guests
  /\ hist.done[2].id = hist.done[1].id

\* C6 as claimed: bookSlot then releaseSlot returns booked and bookingIds to
\* exactly their values before the bookSlot, for every bucket state.
C6_RoundTripAll ==
  BookThenRelease =>
    /\ hist.done[2].post.booked = hist.done[1].pre.booked
    /\ hist.done[2].post.bookingIds = hist.done[1].pre.bookingIds

\* C6 amended: bookSlot then releaseSlot returns booked to exactly its value
\* before the bookSlot, and bookingIds too when the bookingId was not already
\* among the bucket's bookingIds.
C6_RoundTrip ==
  BookThenRelease =>
    /\ hist.done[2].post.booked = hist.done[1].pre.booked
    /\ hist.done[1].id \notin Range(hist.done[1].pre.bookingIds) =>
         hist.done[2].post.bookingIds = hist.done[1].pre.bookingIds

\* the round trip on a bucket that already held another reservation
C6_Witness ==
  /\ BookThenRelease
  /\ hist.done[1].pre.booked > 0
  /\ hist.done[1].id \notin Range(hist.done[1].pre.bookingIds)

\* ------------------------------------------------------------------------
\* findNearestAvailableSlots, called once on a day some of whose buckets were
\* booked or blocked before.
MaxTouched == 2
MaxResults == 3

Abs(x) == IF x < 0 THEN -x ELSE x

\* the sort's comparator: negative, zero or positive
proximityCompare(a, b, preferredMinutes) ==
  Abs(timeToMinutes(a) - preferredMinutes) - Abs(timeToMinutes(b) - preferredMinutes)

placedBefore_ties(x, y, preferredMinutes) == proximityCompare(x, y, preferredMinutes) <= 0

\* Array.prototype.sort is stable: x, which came later in the array, goes in
\* front of y only when the comparator puts it strictly first
placedBefore(x, y, preferredMinutes) == proximityCompare(x, y, preferredMinutes) < 0

RECURSIVE InsertSorted(_, _, _)
InsertSorted(sorted, x, preferredMinutes) ==
  IF sorted = <<>> THEN <<x>>
  ELSE IF placedBefore(x, Head(sorted), preferredMinutes) THEN <<x>> \o sorted
       ELSE <<Head(sorted)>> \o InsertSorted(Tail(sorted), x, preferredMinutes)

RECURSIVE SortByProximity(_, _, _)
SortByProximity(all, n, preferredMinutes) ==
  IF n = 0 THEN <<>>
  ELSE InsertSorted(SortByProximity(all, n - 1, preferredMinutes), all[n], preferredMinutes)

\* the loop over the sorted times: stop at maxResults; checkAvailability
\* creates the bucket it looks at when it is missing
RECURSIVE CollectAvailable(_, _, _, _, _)
CollectAvailable(sorted, store, found, guestCount, maxResults) ==
  IF sorted = <<>> \/ Len(found) >= maxResults
  THEN [result |-> found, store |-> store]
  ELSE LET time == Head(sorted)
           slot == IF store[time].exists THEN store[time] ELSE newSlot
           created == [store EXCEPT ![time] = slot] IN
       CollectAvailable(Tail(sorted), created,
                        IF hasAvailability(slot, guestCount)
                        THEN Append(found, time) ELSE found,
                        guestCount, maxResults)

\* preferred times: slot times from opening to closing, and times off the
\* half-hour grid (before opening, between two slots, after closing)
PreferredTimes ==
  {OPENING_TIME, <<13, 30>>, <<16, 30>>, <<19, 0>>, <<20, 30>>, CLOSING_TIME,
   <<9, 0>>, <<19, 15>>, <<23, 30>>}

\* generateDaySlots() sorted by proximity, per preferred time
sortedSlotsFor ==
  [preferredTime \in PreferredTimes |->
     SortByProximity(generateDaySlots, Len(generateDaySlots),
                     timeToMinutes(preferredTime))]

findNearestFrom(preferredTimes, guestCounts, limits) ==
  \E preferredTime \in preferredTimes, guestCount \in guestCounts, maxResults \in limits :
    LET sortedSlots == sortedSlotsFor[preferredTime]
        out == CollectAvailable(sortedSlots, slots, <<>>, guestCount, maxResults) IN
    /\ ~near.called
    /\ near' = [called |-> TRUE, preferredTime |-> preferredTime,
                guestCount |-> guestCount, maxResults |-> maxResults,
                result |-> out.result]
    /\ slots' = out.store
    /\ UNCHANGED <<calls, stale, budget, reserved, hist, bookings, dialogVars, speech>>

findNearestAvailableSlots ==
  findNearestFrom(PreferredTimes, {SmallParty, LargeParty}, 1..MaxResults)

\* buckets as earlier calls leave them: one large party booked, or blocked
BookedBucket == bookSeats(newSlot, LargeParty, 1).doc
BlockedBucket == blockFields(newSlot, "admin1", Undefined)

InitNearest ==
  /\ \E touched \in {{}} \cup {Range(f) : f \in [1..MaxTouched -> AllTimes]} :
       \E blocked \in SUBSET touched :
         slots = [t \in AllTimes |->
                    IF t \in blocked THEN BlockedBucket
                    ELSE IF t \in touched THEN BookedBucket ELSE NullDoc]
  /\ calls = [p \in Procs |-> IdleCall]
  /\ stale = [p \in Procs |-> FALSE]
  /\ budget = 0
  /\ reserved = [t \in BucketTimes |-> [i \in Ids |-> 0]]
  /\ hist = [keep |-> "none", pre |-> NullDoc, done |-> <<>>]
  /\ InitOthers

NearestNext == findNearestAvailableSlots

SpecNearest == InitNearest /\ [][NearestNext]_vars

Distance(t) == Abs(timeToMinutes(t) - timeToMinutes(near.preferredTime))

\* t comes before u in the order of the claim: nearer first, earlier on a tie
Nearer(t, u) ==
  \/ Distance(t) < Distance(u)
  \/ Distance(t) = Distance(u) /\ timeToMinutes(t) < timeToMinutes(u)

\* C10: the result holds the first maxResults available times of the day's
\* half-hour times ordered by distance from preferredTime, earlier time first
\* on a tie: at most maxResults entries, each available for guestCount, in
\* that order, and no available time that comes before a returned one, or
\* that would still fit, is left out.
C10_NearestFirst ==
  near.called =>
    LET r == near.result
        Available(t) == hasAvailability(slots[t], near.guestCount) IN
    /\ Len(r) <= near.maxResults
    /\ \A i \in DOMAIN r : r[i] \in AllTimes /\ Available(r[i])
    /\ \A i, j \in DOMAIN r : i < j => Nearer(r[i], r[j])
    /\ \A t \in AllTimes :
         (Available(t) /\ t \notin Range(r)) =>
           /\ Len(r) = near.maxResults
           /\ \A i \in DOMAIN r : Nearer(r[i], t)

\* a search that had to skip an unavailable time and returned two times at
\* the same distance from the preferred time
C10_Witness ==
  /\ near.called
  /\ \E t \in AllTimes : ~hasAvailability(slots[t], near.guestCount)
                         /\ \E i \in DOMAIN near.result : Nearer(t, near.result[i])
  /\ \E i, j \in DOMAIN near.result :
       i < j /\ Distance(near.result[i]) = Distance(near.result[j])

\* ------------------------------------------------------------------------
\* findNearestAvailableSlots(date, "19:00", 4, 3) on a day where 19:00 and
\* 19:30 cannot take four guests while 18:30 and 20:00 can.
ExampleCall == [preferredTime |-> <<19, 0>>, guestCount |-> 4, maxResults |-> 3]

\* one call of findNearestAvailableSlots with the given arguments
nearestCall(preferredTime, guestCount, maxResults) ==
  LET sortedSlots == sortedSlotsFor[preferredTime]
      out == CollectAvailable(sortedSlots, slots, <<>>, guestCount, maxResults) IN
  /\ ~near.called
  /\ near' = [called |-> TRUE, preferredTime |-> preferredTime,
              guestCount |-> guestCount, maxResults |-> maxResults,
              result |-> out.result]
  /\ slots' = out.store
  /\ UNCHANGED <<calls, stale, budget, reserved, hist, bookings, dialogVars, speech>>

\* buckets as earlier calls leave them
FullBucket == bookSeats(BookedBucket, DEFAULT_CAPACITY - LargeParty, 2).doc
NearlyFullBucket ==
  bookSeats(BookedBucket, DEFAULT_CAPACITY - LargeParty - (ExampleCall.guestCount - 1), 2).doc
OpenBuckets == {NullDoc, newSlot, BookedBucket}
TakenBuckets == {FullBucket, NearlyFullBucket, BlockedBucket}

\* the times next to the four the day is described by
NeighbourTimes == {<<17, 30>>, <<18, 0>>, <<20, 30>>}

InitNearestDay ==
  /\ \E early \in OpenBuckets, late \in OpenBuckets,
        seven \in TakenBuckets, halfPast \in TakenBuckets,
        around \in [NeighbourTimes -> {NullDoc, FullBucket, BlockedBucket}],
        rest \in {NullDoc, FullBucket} :
       slots = [t \in AllTimes |->
                  CASE t = <<18, 30>> -> early
                    [] t = <<20, 0>> -> late
                    [] t = <<19, 0>> -> seven
                    [] t = <<19, 30>> -> halfPast
                    [] t \in NeighbourTimes -> around[t]
                    [] OTHER -> rest]
  /\ calls = [p \in Procs |-> IdleCall]
  /\ stale = [p \in Procs |-> FALSE]
  /\ budget = 0
  /\ reserved = [t \in BucketTimes |-> [i \in Ids |-> 0]]
  /\ hist = [keep |-> "none", pre |-> NullDoc, done |-> <<>>]
  /\ InitOthers

NearestDayNext ==
  nearestCall(ExampleCall.preferredTime, ExampleCall.guestCount, ExampleCall.maxResults)

SpecNearestDay == InitNearestDay /\ [][NearestDayNext]_vars

\* the day of the claim: 19:00 and 19:30 are full, 18:30 and 20:00 are open
FullAtSevenOpenAround ==
  /\ ~hasAvailability(slots[<<19, 0>>], ExampleCall.guestCount)
  /\ ~hasAvailability(slots[<<19, 30>>], ExampleCall.guestCount)
  /\ hasAvailability(slots[<<18, 30>>], ExampleCall.guestCount)
  /\ hasAvailability(slots[<<20, 0>>], ExampleCall.guestCount)

\* C11 as claimed: on such a day the call returns ["18:30", "20:00"].
C11_EveningExample ==
  (near.called /\ FullAtSevenOpenAround) => near.result = << <<18, 30>>, <<20, 0>> >>

\* C11 amended: on such a day the result starts with 18:30 and 20:00 comes
\* right after it, unless 18:00 is open too: then the result is
\* ["18:30", "18:00", "20:00"].
C11_EveningExampleNear ==
  (near.called /\ FullAtSevenOpenAround) =>
    IF hasAvailability(slots[<<18, 0>>], ExampleCall.guestCount)
    THEN near.result = << <<18, 30>>, <<18, 0>>, <<20, 0>> >>
    ELSE /\ Len(near.result) \in {2, 3}
         /\ SubSeq(near.result, 1, 2) = << <<18, 30>>, <<20, 0>> >>

\* the call was made on a day where only 18:30 and 20:00 are open: the
\* result is exactly the two times of the claim
C11_Witness ==
  /\ near.called /\ FullAtSevenOpenAround
  /\ \A t \in AllTimes \ {<<18, 30>>, <<20, 0>>} :
       ~hasAvailability(slots[t], ExampleCall.guestCount)
  /\ near.result = << <<18, 30>>, <<20, 0>> >>

\* ------------------------------------------------------------------------
\* getAvailabilitySummary(date), called once on a day some of whose buckets
\* were booked, filled or blocked before.

\* Math.round(x * 100) / 100 of x = 100 * totalBooked / totalCapacity, in
\* hundredths: Math.round rounds halves up
roundedPercent_truncated(totalBooked, totalCapacity) ==
  IF totalCapacity > 0 THEN (10000 * totalBooked) \div totalCapacity ELSE 0

roundedPercent(totalBooked, totalCapacity) ==
  IF totalCapacity > 0
  THEN (2 * 10000 * totalBooked + totalCapacity) \div (2 * totalCapacity)
  ELSE 0

RECURSIVE summarise_missingSkipped(_, _, _)
summarise_missingSkipped(times, found, acc) ==
  IF times = <<>> THEN acc
  ELSE LET slot == found[Head(times)] IN
       summarise_missingSkipped(Tail(times), found,
         IF ~slot.exists THEN acc
         ELSE LET sums == [acc EXCEPT !.totalCapacity = @ + slot.capacity,
                                      !.totalBooked = @ + slot.booked] IN
              IF slot.isBlocked THEN [sums EXCEPT !.blockedSlots = @ + 1]
              ELSE IF slot.booked >= slot.capacity
                   THEN [sums EXCEPT !.bookedSlots = @ + 1]
                   ELSE [sums EXCEPT !.availableSlots = @ + 1])

\* the loop over allSlotTimes: acc holds the five counters
RECURSIVE summarise(_, _, _)
summarise(times, found, acc) ==
  IF times = <<>> THEN acc
  ELSE LET slot == found[Head(times)] IN
       summarise(Tail(times), found,
         IF ~slot.exists
         THEN [acc EXCEPT !.availableSlots = @ + 1,
                          !.totalCapacity = @ + DEFAULT_CAPACITY]
         ELSE LET sums == [acc EXCEPT !.totalCapacity = @ + slot.capacity,
                                      !.totalBooked = @ + slot.booked] IN
              IF slot.isBlocked THEN [sums EXCEPT !.blockedSlots = @ + 1]
              ELSE IF slot.booked >= slot.capacity
                   THEN [sums EXCEPT !.bookedSlots = @ + 1]
                   ELSE [sums EXCEPT !.availableSlots = @ + 1])

\* the summary of the day whose buckets getSlotsForDate has found
summaryOf(found) ==
  LET allSlotTimes == generateDaySlots
      acc == summarise(allSlotTimes, found,
                       [availableSlots |-> 0, bookedSlots |-> 0, blockedSlots |-> 0,
                        totalCapacity |-> 0, totalBooked |-> 0]) IN
  [called |-> TRUE, totalSlots |-> Len(allSlotTimes),
   availableSlots |-> acc.availableSlots,
   bookedSlots |-> acc.bookedSlots,
   blockedSlots |-> acc.blockedSlots,
   capacityUtilization |-> roundedPercent(acc.totalBooked, acc.totalCapacity)]

getAvailabilitySummary ==
  /\ ~summary.called
  /\ summary' = summaryOf(slots)
  /\ UNCHANGED <<slotVars, bookings, near, session, speech>>

BlockedBookedBucket == blockFields(BookedBucket, "admin1", Undefined)
SummaryBuckets == {newSlot, BookedBucket, FullBucket, BlockedBucket, BlockedBookedBucket}

InitSummary ==
  /\ \E touched \in {{}} \cup {Range(f) : f \in [1..MaxTouched -> AllTimes]} :
       \E kind \in [touched -> SummaryBuckets] :
         slots = [t \in AllTimes |-> IF t \in touched THEN kind[t] ELSE NullDoc]
  /\ calls = [p \in Procs |-> IdleCall]
  /\ stale = [p \in Procs |-> FALSE]
  /\ budget = 0
  /\ reserved = [t \in BucketTimes |-> [i \in Ids |-> 0]]
  /\ hist = [keep |-> "none", pre |-> NullDoc, done |-> <<>>]
  /\ InitOthers

SummaryNext == getAvailabilitySummary

SpecSummary == InitSummary /\ [][SummaryNext]_vars

\* a time of the day as the claim counts it: a bucket not yet created is
\* an available one with the default capacity and nothing booked
Counted(t) == IF slots[t].exists THEN slots[t] ELSE newSlot

ClassOf(t) ==
  IF Counted(t).isBlocked THEN "blocked"
  ELSE IF Counted(t).booked >= Counted(t).capacity THEN "booked" ELSE "available"

TimesOfClass(c) == {t \in AllTimes : ClassOf(t) = c}

RECURSIVE SumField(_, _)
SumField(S, field) ==
  IF S = {} THEN 0
  ELSE LET t == CHOOSE u \in S : TRUE IN
       (IF field = "booked" THEN Counted(t).booked ELSE Counted(t).capacity)
         + SumField(S \ {t}, field)

\* the counts of the claim: each of the 23 times in exactly one class
SummaryCounts ==
  /\ summary.totalSlots = 23
  /\ Cardinality(AllTimes) = 23
  /\ summary.availableSlots = Cardinality(TimesOfClass("available"))
  /\ summary.bookedSlots = Cardinality(TimesOfClass("booked"))
  /\ summary.blockedSlots = Cardinality(TimesOfClass("blocked"))
  /\ summary.availableSlots + summary.bookedSlots + summary.blockedSlots
       = summary.totalSlots

\* C12 as claimed: the counts, and capacityUtilization is the quotient
\* totalBooked / totalCapacity over the 23 times.
C12_SummaryQuotient ==
  summary.called =>
    /\ SummaryCounts
    /\ summary.capacityUtilization * SumField(AllTimes, "capacity")
         = 100 * SumField(AllTimes, "booked")

\* C12 amended: the counts, and capacityUtilization is totalBooked /
\* totalCapacity over the 23 times as a percentage rounded to two decimals.
C12_SummaryPercent ==
  summary.called =>
    /\ SummaryCounts
    /\ LET totalBooked == SumField(AllTimes, "booked")
           totalCapacity == SumField(AllTimes, "capacity")
           hundredths == summary.capacityUtilization IN
       \* |hundredths / 100 - 100 * totalBooked / totalCapacity| <= 0.005,
       \* the upper half rounded up
       /\ 2 * hundredths * totalCapacity <= 2 * 10000 * totalBooked + totalCapacity
       /\ 2 * hundredths * totalCapacity > 2 * 10000 * totalBooked - totalCapacity

\* a summary of a day with a blocked bucket, a full one and seats booked
C12_Witness ==
  /\ summary.called
  /\ summary.blockedSlots > 0 /\ summary.bookedSlots > 0
  /\ summary.availableSlots < 23
  /\ summary.capacityUtilization > 0

\* ------------------------------------------------------------------------
\* Messages.  A message is a sequence of lexemes: a run of letters, a run of
\* d digits with value n, a run of white space, or any other characters.
\* The patterns below match words whole.
Word(s) == [k |-> "word", s |-> s, n |-> 0, d |-> 0]
Num(n, d) == [k |-> "num", s |-> "", n |-> n, d |-> d]
Space == [k |-> "space", s |-> " ", n |-> 0, d |-> 0]
Punct(s) == [k |-> "punct", s |-> s, n |-> 0, d |-> 0]

\* a value that may be missing: null, or the value
None == <<>>
Some(v) == <<v>>

\* the upper-case words of the messages, and String.prototype.toLowerCase
LowerCased == [I |-> "i", Alex |-> "alex", Italian |-> "italian"]

toLowerCase(m) ==
  [i \in DOMAIN m |->
     IF m[i].k = "word" /\ m[i].s \in DOMAIN LowerCased
     THEN Word(LowerCased[m[i].s]) ELSE m[i]]

RECURSIVE trimStart(_)
trimStart(m) ==
  IF m # <<>> /\ Head(m).k = "space" THEN trimStart(Tail(m)) ELSE m

RECURSIVE trimEnd(_)
trimEnd(m) ==
  IF m # <<>> /\ m[Len(m)].k = "space" THEN trimEnd(SubSeq(m, 1, Len(m) - 1)) ELSE m

trim(m) == trimEnd(trimStart(m))

normalize(message) == trim(toLowerCase(message))

IsWord(m, i) == i \in DOMAIN m /\ m[i].k = "word"
IsNum(m, i) == i \in DOMAIN m /\ m[i].k = "num"
IsSpace(m, i) == i \in DOMAIN m /\ m[i].k = "space"

\* \b on both sides of the lexeme at i: no letter or digit touches it
Standalone(m, i) == ~IsNum(m, i - 1) /\ ~IsNum(m, i + 1) /\ ~IsWord(m, i - 1) /\ ~IsWord(m, i + 1)

\* new RegExp(`\\b${word}\\b`).test(m)
HasWord(m, w) == \E i \in DOMAIN m : m[i] = Word(w) /\ Standalone(m, i)

MatchesAt(m, i, phrase) ==
  /\ i + Len(phrase) - 1 <= Len(m)
  /\ SubSeq(m, i, i + Len(phrase) - 1) = phrase

Least(S) == CHOOSE x \in S : \A y \in S : x <= y

\* the first entry of a keyword table (pairs of keyword and value, in the
\* order of the object's keys) whose keyword is a word of the message
RECURSIVE FirstKeyword(_, _, _)
FirstKeyword(m, table, i) ==
  IF i > Len(table) THEN None
  ELSE IF HasWord(m, table[i][1]) THEN Some(table[i][2])
       ELSE FirstKeyword(m, table, i + 1)

\* --- extractName
IntroPhrases ==
  << <<Word("my"), Space, Word("name"), Space, Word("is")>>,
     <<Word("i"), Punct("'"), Word("m")>>,
     <<Word("i"), Space, Word("am")>>,
     <<Word("this"), Space, Word("is")>>,
     <<Word("call"), Space, Word("me")>> >>

\* word.charAt(0).toUpperCase() + word.slice(1), for the words a message
\* can give as a name
Capitalized == [alex |-> "Alex", tomorrow |-> "Tomorrow", italian |-> "Italian"]

capitalize(word) == IF word \in DOMAIN Capitalized THEN Capitalized[word] ELSE word

\* ([a-z]+(?:\s+[a-z]+)?) at position j, each word capitalized
nameAt(m, j) ==
  IF IsSpace(m, j + 1) /\ IsWord(m, j + 2)
  THEN <<capitalize(m[j].s), capitalize(m[j + 2].s)>>
  ELSE <<capitalize(m[j].s)>>

extractName_anyState(m, state) ==
  LET starts == {i \in DOMAIN m :
                   \E k \in DOMAIN IntroPhrases :
                     /\ MatchesAt(m, i, IntroPhrases[k])
                     /\ IsSpace(m, i + Len(IntroPhrases[k]))
                     /\ IsWord(m, i + Len(IntroPhrases[k]) + 1)} IN
  IF starts # {}
  THEN LET i == Least(starts)
           k == Least({j \in DOMAIN IntroPhrases :
                         /\ MatchesAt(m, i, IntroPhrases[j])
                         /\ IsSpace(m, i + Len(IntroPhrases[j]))
                         /\ IsWord(m, i + Len(IntroPhrases[j]) + 1)}) IN
       Some(nameAt(m, i + Len(IntroPhrases[k]) + 1))
  ELSE IF IsWord(m, 1) /\ (Len(m) = 1 \/ (Len(m) = 3 /\ IsSpace(m, 2) /\ IsWord(m, 3)))
       THEN Some(nameAt(m, 1))
       ELSE None

extractName_everyState(m, state) == extractName_anyState(m, state)

extractName(m, state) ==
  IF state # "collecting_name" /\ state # "greeting" THEN None
  ELSE extractName_anyState(m, state)

\* --- extractBilingualNumber
hindiNumbers ==
  << <<"ek", 1>>, <<"do", 2>>, <<"teen", 3>>, <<"char", 4>>, <<"paanch", 5>>,
     <<"cheh", 6>>, <<"saat", 7>>, <<"aath", 8>>, <<"nau", 9>>, <<"das", 10>>,
     <<"gyarah", 11>>, <<"barah", 12>>, <<"terah", 13>>, <<"chaudah", 14>>,
     <<"pandrah", 15>>, <<"solah", 16>>, <<"satrah", 17>>, <<"atharah", 18>>,
     <<"unnis", 19>>, <<"bees", 20>>,
     <<"one", 1>>, <<"two", 2>>, <<"three", 3>>, <<"four", 4>>, <<"five", 5>>,
     <<"six", 6>>, <<"seven", 7>>, <<"eight", 8>>, <<"nine", 9>>, <<"ten", 10>>,
     <<"eleven", 11>>, <<"twelve", 12>>, <<"thirteen", 13>>, <<"fourteen", 14>>,
     <<"fifteen", 15>>, <<"sixteen", 16>>, <<"seventeen", 17>>, <<"eighteen", 18>>,
     <<"nineteen", 19>>, <<"twenty", 20>> >>

InGuestRange_unbounded(num) == num >= 1

InGuestRange(num) == num >= 1 /\ num <= 20

\* (?:me|main|mai)\s+(?:and|aur)\s+(\d+)\s+(?:more|aur|log)?  at position i
meAndMoreAt(m, i) ==
  /\ IsWord(m, i) /\ m[i].s \in {"me", "main", "mai"}
  /\ IsSpace(m, i + 1)
  /\ IsWord(m, i + 2) /\ m[i + 2].s \in {"and", "aur"}
  /\ IsSpace(m, i + 3) /\ IsNum(m, i + 4) /\ IsSpace(m, i + 5)

\* (\d+)\s+(?:aur|and)\s+(?:me|main|mai)  at position i
andMeAt(m, i) ==
  /\ IsNum(m, i) /\ IsSpace(m, i + 1)
  /\ IsWord(m, i + 2) /\ m[i + 2].s \in {"aur", "and"}
  /\ IsSpace(m, i + 3)
  /\ IsWord(m, i + 4) /\ m[i + 4].s \in {"me", "main", "mai"}

extractBilingualNumber(text) ==
  LET m == normalize(text)
      digits == {i \in DOMAIN m : IsNum(m, i)}
      first == {i \in DOMAIN m : meAndMoreAt(m, i)}
      second == {i \in DOMAIN m : andMeAt(m, i)}
      byWord == FirstKeyword(m, hindiNumbers, 1) IN
  IF digits # {} /\ InGuestRange(m[Least(digits)].n) THEN Some(m[Least(digits)].n)
  ELSE IF byWord # None THEN byWord
  ELSE IF first # {} /\ InGuestRange(m[Least(first) + 4].n + 1)
       THEN Some(m[Least(first) + 4].n + 1)
  ELSE IF second # {} /\ InGuestRange(m[Least(second)].n + 1)
       THEN Some(m[Least(second)].n + 1)
  ELSE None

\* --- extractBilingualDate.  A date is the number of days after the day of
\* the call; currentDay is today.getDay() (0 is Sunday).
relativeDates ==
  << <<"aaj", 0>>, <<"today", 0>>, <<"kal", 1>>, <<"tomorrow", 1>>,
     <<"parso", 2>>, <<"narso", 2>> >>

dayNames ==
  << <<"somvar", 1>>, <<"somwar", 1>>, <<"mangalvar", 2>>, <<"mangalwar", 2>>,
     <<"budhvar", 3>>, <<"budhwar", 3>>, <<"guruvar", 4>>, <<"guruwar", 4>>,
     <<"shukravar", 5>>, <<"shukrawar", 5>>, <<"shanivar", 6>>, <<"shaniwar", 6>>,
     <<"ravivar", 0>>, <<"raviwar", 0>>,
     <<"monday", 1>>, <<"tuesday", 2>>, <<"wednesday", 3>>, <<"thursday", 4>>,
     <<"friday", 5>>, <<"saturday", 6>>, <<"sunday", 0>> >>

getNextDayOfWeek_sameWeek(targetDay, nextWeek, currentDay) ==
  LET daysUntilTarget == targetDay - currentDay IN
  IF daysUntilTarget <= 0 THEN daysUntilTarget + 7 ELSE daysUntilTarget

getNextDayOfWeek(targetDay, nextWeek, currentDay) ==
  LET daysUntilTarget == targetDay - currentDay IN
  IF daysUntilTarget <= 0 \/ nextWeek THEN daysUntilTarget + 7 ELSE daysUntilTarget

\* relative days, then day names; messages that give a day of a month
\* (12/03/2025, 12 March) are not among the messages modelled
extractBilingualDate(text, currentDay) ==
  LET m == normalize(text)
      relative == FirstKeyword(m, relativeDates, 1)
      named == FirstKeyword(m, dayNames, 1)
      isNext == \E i \in DOMAIN m : IsWord(m, i) /\ m[i].s \in {"next", "agle", "agla"} IN
  IF relative # None THEN relative
  ELSE IF named # None THEN Some(getNextDayOfWeek(named[1], isNext, currentDay))
  ELSE None

\* --- extractBilingualTime.  A time is <<hours, minutes>>.
hindiTimeOfDay ==
  << <<"subah", "AM">>, <<"savera", "AM">>, <<"dopahar", "PM">>, <<"shaam", "PM">>,
     <<"sham", "PM">>, <<"raat", "PM">>, <<"morning", "AM">>, <<"afternoon", "PM">>,
     <<"evening", "PM">>, <<"night", "PM">> >>

convertTo24Hour(hour, meridiem) ==
  IF meridiem = "PM" /\ hour < 12 THEN hour + 12
  ELSE IF meridiem = "AM" /\ hour = 12 THEN 0
  ELSE hour

\* normalized.includes(keyword), for the first keyword of the table found
RECURSIVE firstTimeOfDay(_, _)
firstTimeOfDay(m, i) ==
  IF i > Len(hindiTimeOfDay) THEN None
  ELSE IF \E j \in DOMAIN m : m[j] = Word(hindiTimeOfDay[i][1])
       THEN Some(hindiTimeOfDay[i][2])
       ELSE firstTimeOfDay(m, i + 1)

\* the lexeme after position i, white space skipped (\s*)
After(m, i) == IF IsSpace(m, i + 1) THEN i + 2 ELSE i + 1

\* Pattern 1: (\d{1,2})\s*baje
bajeTime(m) ==
  LET at == {i \in DOMAIN m : IsNum(m, i) /\ After(m, i) \in DOMAIN m
                              /\ m[After(m, i)] = Word("baje")} IN
  IF at = {} THEN None
  ELSE LET hour == m[Least(at)].n
           meridiem == firstTimeOfDay(m, 1) IN
       IF meridiem # None THEN Some(<<convertTo24Hour(hour, meridiem[1]), 0>>)
       ELSE IF hour >= 5 /\ hour <= 11 THEN Some(<<hour + 12, 0>>)
       ELSE Some(<<hour, 0>>)

\* Pattern 2: keyword\s*(\d{1,2}), else (\d{1,2})\s*keyword, keyword by keyword
RECURSIVE qualifiedTime(_, _)
qualifiedTime(m, k) ==
  IF k > Len(hindiTimeOfDay) THEN None
  ELSE LET keyword == Word(hindiTimeOfDay[k][1])
           forward == {i \in DOMAIN m : m[i] = keyword /\ IsNum(m, After(m, i))}
           reverse == {i \in DOMAIN m : IsNum(m, i) /\ After(m, i) \in DOMAIN m
                                        /\ m[After(m, i)] = keyword} IN
       IF forward # {}
       THEN Some(<<convertTo24Hour(m[After(m, Least(forward))].n, hindiTimeOfDay[k][2]), 0>>)
       ELSE IF reverse # {}
       THEN Some(<<convertTo24Hour(m[Least(reverse)].n, hindiTimeOfDay[k][2]), 0>>)
       ELSE qualifiedTime(m, k + 1)

\* parseInt of a captured group: a number, or NaN
parseInt(lexeme) ==
  IF lexeme.k = "num" THEN [nan |-> FALSE, n |-> lexeme.n] ELSE [nan |-> TRUE, n |-> 0]

\* the check and the result of Pattern 3, from the captured groups: hours
\* and minutes as parsed, meridiem "am", "pm" or "" (no third group)
standardTime(hours, minutes, meridiem) ==
  LET h == IF meridiem = "pm" /\ hours.n < 12 THEN hours.n + 12
           ELSE IF meridiem = "am" /\ hours.n = 12 THEN 0
           ELSE hours.n IN
  IF /\ ~hours.nan /\ ~minutes.nan
     /\ h >= 0 /\ h < 24 /\ minutes.n >= 0 /\ minutes.n < 60
  THEN Some(<<h, minutes.n>>)
  ELSE None

\* Pattern 3, first form: (\d{1,2}):(\d{2})\s*(am|pm)?
colonTime(m) ==
  LET at == {i \in DOMAIN m : /\ IsNum(m, i) /\ i + 2 \in DOMAIN m
                              /\ m[i + 1] = Punct(":")
                              /\ IsNum(m, i + 2) /\ m[i + 2].d >= 2} IN
  IF at = {} THEN None
  ELSE LET i == Least(at)
           j == After(m, i + 2)
           meridiem == IF IsWord(m, j) /\ m[j].s \in {"am", "pm"} THEN m[j].s ELSE "" IN
       standardTime(parseInt(m[i]), parseInt(m[i + 2]), meridiem)

\* Pattern 3, second form: (?:at|around|about)?\s*(\d{1,2})\s*(am|pm).  The
\* code reads the minutes from group 2, which holds "am" or "pm" here, and
\* the meridiem from group 3, which this pattern does not have.
meridiemTime(m) ==
  LET at == {i \in DOMAIN m : IsNum(m, i) /\ IsWord(m, After(m, i))
                              /\ m[After(m, i)].s \in {"am", "pm"}} IN
  IF at = {} THEN None
  ELSE LET i == Least(at) IN
       standardTime(parseInt(m[i]), parseInt(m[After(m, i)]), "")

\* Pattern 4: \b(\d{1,2})\b
bareHourTime(m) ==
  LET at == {i \in DOMAIN m : IsNum(m, i) /\ m[i].d <= 2 /\ Standalone(m, i)} IN
  IF at = {} THEN None
  ELSE LET hour == m[Least(at)].n
           meridiem == firstTimeOfDay(m, 1) IN
       IF meridiem # None THEN Some(<<convertTo24Hour(hour, meridiem[1]), 0>>)
       ELSE IF hour >= 5 /\ hour <= 11 THEN Some(<<hour + 12, 0>>)
       ELSE None

extractBilingualTime(text) ==
  LET m == normalize(text) IN
  IF bajeTime(m) # None THEN bajeTime(m)
  ELSE IF qualifiedTime(m, 1) # None THEN qualifiedTime(m, 1)
  ELSE IF colonTime(m) # None THEN colonTime(m)
  ELSE IF meridiemTime(m) # None THEN meridiemTime(m)
  ELSE bareHourTime(m)

\* --- extractBilingualCuisine
cuisineMap ==
  << <<"italian", "Italian">>, <<"italvi", "Italian">>, <<"pasta", "Italian">>,
     <<"pizza", "Italian">>,
     <<"chinese", "Chinese">>, <<"chini", "Chinese">>, <<"cheeni", "Chinese">>,
     <<"china", "Chinese">>, <<"noodles", "Chinese">>,
     <<"indian", "Indian">>, <<"bharatiya", "Indian">>, <<"bharatiye", "Indian">>,
     <<"hindustani", "Indian">>, <<"desi", "Indian">>, <<"curry", "Indian">>,
     <<"tandoori", "Indian">>, <<"biryani", "Indian">>,
     <<"japanese", "Japanese">>, <<"japani", "Japanese">>, <<"sushi", "Japanese">>,
     <<"ramen", "Japanese">>,
     <<"mexican", "Mexican">>, <<"mexicano", "Mexican">>, <<"tacos", "Mexican">>,
     <<"burrito", "Mexican">>,
     <<"thai", "Thai">>, <<"thailand", "Thai">>,
     <<"french", "French">>, <<"fransisi", "French">>,
     <<"mediterranean", "Mediterranean">>, <<"greek", "Greek">>,
     <<"american", "American">>, <<"burger", "American">>,
     <<"korean", "Korean">>, <<"koreai", "Korean">>,
     <<"lebanese", "Lebanese">>, <<"arabic", "Lebanese">>, <<"arabi", "Lebanese">>,
     <<"turkish", "Turkish">>, <<"turki", "Turkish">> >>

\* cuisineMap[keyword]
RECURSIVE cuisineOf(_, _)
cuisineOf(keyword, i) ==
  IF i > Len(cuisineMap) THEN None
  ELSE IF cuisineMap[i][1] = keyword THEN Some(cuisineMap[i][2])
       ELSE cuisineOf(keyword, i + 1)

\* (\w+)\s+(?:khana|food), else (?:khana|food)\s+(\w+): the first match only
foodWord(m) ==
  LET before == {i \in DOMAIN m : /\ IsWord(m, i) /\ IsSpace(m, i + 1)
                                  /\ IsWord(m, i + 2) /\ m[i + 2].s \in {"khana", "food"}}
      after == {i \in DOMAIN m : /\ IsWord(m, i) /\ m[i].s \in {"khana", "food"}
                                 /\ IsSpace(m, i + 1) /\ IsWord(m, i + 2)} IN
  IF before # {} /\ Standalone(m, Least(before)) /\ cuisineOf(m[Least(before)].s, 1) # None
  THEN cuisineOf(m[Least(before)].s, 1)
  ELSE IF after # {} /\ Standalone(m, Least(after) + 2)
       THEN cuisineOf(m[Least(after) + 2].s, 1)
       ELSE None

extractBilingualCuisine(text) ==
  LET m == normalize(text) IN
  IF FirstKeyword(m, cuisineMap, 1) # None THEN FirstKeyword(m, cuisineMap, 1)
  ELSE foodWord(m)

\* --- extractBilingualSpecialRequests
specialRequestKeywords ==
  << <<"birthday", "birthday celebration">>, <<"janmdin", "birthday celebration">>,
     <<"janamdin", "birthday celebration">>, <<"bday", "birthday celebration">>,
     <<"anniversary", "anniversary celebration">>,
     <<"saalgirah", "anniversary celebration">>,
     <<"salgirah", "anniversary celebration">>,
     <<"kids", "kids present">>, <<"children", "kids present">>,
     <<"bachche", "kids present">>, <<"bacche", "kids present">>,
     <<"bacha", "kids present">>,
     <<"allergy", "food allergy">>, <<"allergic", "food allergy">>,
     <<"elerji", "food allergy">>,
     <<"vegetarian", "vegetarian">>, <<"veg", "vegetarian">>,
     <<"shakahari", "vegetarian">>, <<"vegan", "vegan">>, <<"gluten", "gluten-free">>,
     <<"wheelchair", "wheelchair access">>, <<"disabled", "wheelchair access">>,
     <<"viklang", "wheelchair access">>, <<"highchair", "highchair needed">>,
     <<"baby", "highchair needed">> >>

RECURSIVE detectRequests(_, _, _)
detectRequests(m, i, detected) ==
  IF i > Len(specialRequestKeywords) THEN detected
  ELSE detectRequests(m, i + 1,
         IF /\ HasWord(m, specialRequestKeywords[i][1])
            /\ specialRequestKeywords[i][2] \notin Range(detected)
         THEN Append(detected, specialRequestKeywords[i][2]) ELSE detected)

extractBilingualSpecialRequests(text) == detectRequests(normalize(text), 1, <<>>)

\* ------------------------------------------------------------------------
\* The conversation: slotManager, weatherService and the agent controller,
\* for the session of one sessionId.
MaxWeatherCalls == 2

requiredSlots ==
  <<"customerName", "numberOfGuests", "bookingDate", "bookingTime", "cuisinePreference">>

\* the slots of a session; an absent or empty slot is None
EmptySlots ==
  [customerName |-> None, numberOfGuests |-> None, bookingDate |-> None,
   bookingTime |-> None, cuisinePreference |-> None, specialRequests |-> None]

ConversationStates ==
  <<"greeting", "collecting_name", "collecting_guests", "collecting_date",
    "collecting_time", "collecting_cuisine", "fetching_weather",
    "suggesting_seating", "confirming", "completed">>

Utterance ==
  [alex |-> <<Word("I"), Punct("'"), Word("m"), Space, Word("Alex")>>,
   four |-> <<Num(4, 1)>>,
   tomorrow |-> <<Word("tomorrow")>>,
   sevenpm |-> <<Num(7, 1), Word("pm")>>,
   italian |-> <<Word("Italian")>>,
   seven_pm |-> <<Num(7, 1), Space, Word("pm")>>,
   umm |-> <<Word("umm"), Punct("...")>>,
   twentyfive |-> <<Num(25, 2)>>,
   birthday |-> <<Word("it"), Punct("'"), Word("s"), Space, Word("my"), Space,
                  Word("birthday")>>]

Utterances == {Utterance[k] : k \in DOMAIN Utterance}

\* the slots a request carries next to its message: none, or a time
KnownSlots ==
  {[has |-> {}, slots |-> EmptySlots],
   [has |-> {"bookingTime"}, slots |-> [EmptySlots EXCEPT !.bookingTime = Some(<<20, 0>>)]]}

\* { ...session.slots, ...slots }
spread(sessionSlots, known) ==
  [f \in DOMAIN sessionSlots |->
     IF f \in known.has THEN known.slots[f] ELSE sessionSlots[f]]

determineNextState_cuisineFirst(slotValues) ==
  IF slotValues.customerName = None THEN "collecting_name"
  ELSE IF slotValues.numberOfGuests = None THEN "collecting_guests"
  ELSE IF slotValues.bookingDate = None THEN "collecting_date"
  ELSE IF slotValues.cuisinePreference = None THEN "collecting_cuisine"
  ELSE IF slotValues.bookingTime = None THEN "collecting_time"
  ELSE "fetching_weather"

determineNextState(slotValues) ==
  IF slotValues.customerName = None THEN "collecting_name"
  ELSE IF slotValues.numberOfGuests = None THEN "collecting_guests"
  ELSE IF slotValues.bookingDate = None THEN "collecting_date"
  ELSE IF slotValues.bookingTime = None THEN "collecting_time"
  ELSE IF slotValues.cuisinePreference = None THEN "collecting_cuisine"
  ELSE "fetching_weather"

extractSpecialRequests(message) ==
  LET requests == extractBilingualSpecialRequests(message) IN
  IF Len(requests) > 0 THEN Some(requests) ELSE None

\* new Date().getDay() on the days a conversation is held: a Sunday or a
\* Saturday
Weekdays == {0, 6}

\* the extractors of slotManager applied to each message (they are pure;
\* the name's depends on the state, the date's on the day)
extractionOf(message, days) ==
  LET normalizedMessage == normalize(message) IN
  [customerName |->
     [state \in {"greeting", "collecting_name"} |->
        extractName(normalizedMessage, state)],
   numberOfGuests |-> extractBilingualNumber(normalizedMessage),
   bookingDate |->
     [currentDay \in days |-> extractBilingualDate(normalizedMessage, currentDay)],
   bookingTime |-> extractBilingualTime(normalizedMessage),
   cuisinePreference |-> extractBilingualCuisine(normalizedMessage),
   specialRequests |-> extractSpecialRequests(normalizedMessage)]

extraction == [message \in Utterances |-> extractionOf(message, Weekdays)]

extractedFor_everySlot(read, currentSlots, currentState, currentDay) ==
  [customerName |->
     IF currentSlots.customerName = None /\ currentState \in {"greeting", "collecting_name"}
     THEN read.customerName[currentState] ELSE None,
   numberOfGuests |->
     IF currentSlots.numberOfGuests = None THEN read.numberOfGuests ELSE None,
   bookingDate |->
     IF currentSlots.bookingDate = None THEN read.bookingDate[currentDay] ELSE None,
   bookingTime |->
     IF currentSlots.bookingTime = None THEN read.bookingTime ELSE None,
   cuisinePreference |->
     IF currentSlots.cuisinePreference = None THEN read.cuisinePreference ELSE None,
   specialRequests |->
     IF currentSlots.specialRequests = None THEN read.specialRequests ELSE None]

\* what extractSlots reads from the message for the slot that the current
\* state collects; read is the extraction of the message
extractedFor(read, currentSlots, currentState, currentDay) ==
  [customerName |->
     IF currentSlots.customerName = None /\ currentState \in {"greeting", "collecting_name"}
     THEN read.customerName[currentState] ELSE None,
   numberOfGuests |->
     IF currentSlots.numberOfGuests = None /\ currentState = "collecting_guests"
     THEN read.numberOfGuests ELSE None,
   bookingDate |->
     IF currentSlots.bookingDate = None /\ currentState = "collecting_date"
     THEN read.bookingDate[currentDay] ELSE None,
   bookingTime |->
     IF currentSlots.bookingTime = None /\ currentState = "collecting_time"
     THEN read.bookingTime ELSE None,
   cuisinePreference |->
     IF currentSlots.cuisinePreference = None /\ currentState = "collecting_cuisine"
     THEN read.cuisinePreference ELSE None,
   specialRequests |->
     IF currentSlots.specialRequests = None THEN read.specialRequests ELSE None]

extracted_fresh(match, currentSlots) ==
  [slots |-> match,
   slotWasExtracted |-> \E i \in DOMAIN requiredSlots : match[requiredSlots[i]] # None]

\* updatedSlots and slotWasExtracted, from what was read
extracted(match, currentSlots) ==
  [slots |-> [f \in DOMAIN currentSlots |->
                IF match[f] # None THEN match[f] ELSE currentSlots[f]],
   slotWasExtracted |-> \E i \in DOMAIN requiredSlots : match[requiredSlots[i]] # None]

withState(result) ==
  [slots |-> result.slots, state |-> determineNextState(result.slots),
   slotWasExtracted |-> result.slotWasExtracted]

extractSlotsFrom(read, currentSlots, currentState, currentDay) ==
  withState(extracted(extractedFor(read, currentSlots, currentState, currentDay),
                      currentSlots))

extractSlots(message, currentSlots, currentState, currentDay) ==
  extractSlotsFrom(extraction[message], currentSlots, currentState, currentDay)

getMissingSlots(slotValues) ==
  SelectSeq(requiredSlots, LAMBDA slotName : slotValues[slotName] = None)

\* the reply of generateResponse, by its kind
generateResponse(state, slotValues) ==
  IF state \in {"greeting", "collecting_name", "collecting_guests", "collecting_date",
                "collecting_time", "collecting_cuisine", "confirming", "completed"}
  THEN state
  ELSE IF Len(getMissingSlots(slotValues)) > 0 THEN "still_need" ELSE "processing"

\* --- weatherService
\* the days a message can name, counted from today
Dates == {relativeDates[i][2] : i \in DOMAIN relativeDates}

getFallbackWeather == [condition |-> Some("Clear"), temperature |-> 22]

\* what the weather API answers: a report, a report without its condition,
\* or an error
WeatherAnswers ==
  {[kind |-> "report", weather |-> [condition |-> Some("Rain"), temperature |-> 24]],
   [kind |-> "report", weather |-> [condition |-> Some("Clear"), temperature |-> 30]],
   [kind |-> "report", weather |-> [condition |-> Some("Clouds"), temperature |-> 27]],
   [kind |-> "report", weather |-> [condition |-> None, temperature |-> 15]],
   [kind |-> "error", weather |-> [condition |-> None, temperature |-> 0]]}

getWeatherForDate(answer) ==
  IF answer.kind = "error" THEN getFallbackWeather ELSE answer.weather

\* the substrings that getSeatingRecommendation looks for, by condition
Includes ==
  [Rain |-> {"rain"}, Thunderstorm |-> {"storm", "thunder"}, Snow |-> {"snow"},
   Drizzle |-> {"drizzle"}, Clear |-> {"clear"}, Clouds |-> {}]

\* the recommendation, or the TypeError of condition.toLowerCase()
getSeatingRecommendation(weather) ==
  IF weather.condition = None THEN [threw |-> TRUE, recommendation |-> "none"]
  ELSE LET found == Includes[weather.condition[1]]
           temperature == weather.temperature IN
       [threw |-> FALSE,
        recommendation |->
          IF found \cap {"rain", "storm", "thunder", "snow", "drizzle"} # {} THEN "indoor"
          ELSE IF temperature < 20 THEN "indoor"
          ELSE IF temperature >= 25 /\ found \cap {"clear", "sun"} # {} THEN "outdoor"
          ELSE IF temperature >= 20 /\ temperature < 25 THEN "outdoor"
          ELSE "indoor"]

getWeatherRecommendation(answer) == getSeatingRecommendation(getWeatherForDate(answer))

\* --- handleAgentMessage
NoRecommendation == [threw |-> FALSE, recommendation |-> "none"]

\* the five utterances of the end-to-end conversation
Script ==
  <<Utterance.alex, Utterance.four, Utterance.tomorrow, Utterance.sevenpm,
    Utterance.italian>>

ScriptTime == <<19, 0>>

\* lines 99-132: the missing slots, readyToBook, the reply and the response,
\* for a session s whose state is the one after the weather step
respond(s, weatherRecommendation) ==
  LET missingSlots == getMissingSlots(s.slots)
      readyToBook == missingSlots = <<>> /\ s.state = "suggesting_seating"
      hasWeather == weatherRecommendation.recommendation # "none" IN
  [s EXCEPT
     !.pc = "idle",
     !.state = IF s.state = "greeting" THEN "collecting_name"
               ELSE IF s.state = "suggesting_seating" /\ hasWeather THEN "confirming"
               ELSE s.state,
     !.response =
       [reply |-> IF s.state = "greeting" THEN "greeting"
                  ELSE IF s.state = "suggesting_seating" /\ hasWeather THEN "weather"
                  ELSE IF readyToBook THEN "all_set"
                  ELSE generateResponse(s.state, s.slots),
        missing |-> missingSlots,
        seatingRecommendation |-> weatherRecommendation.recommendation,
        readyToBook |-> readyToBook]]

NoResponse ==
  [reply |-> "none", missing |-> <<>>, seatingRecommendation |-> "none",
   readyToBook |-> FALSE]

\* the session as the request finds it, or as it is created
found(known) ==
  IF session.exists
  THEN [state |-> session.state, slots |-> spread(session.slots, known),
        weatherCalls |-> session.weatherCalls,
        weatherSucceeded |-> session.weatherSucceeded,
        script |-> session.script, atStart |-> session.atStart,
        before |-> [state |-> session.state, slots |-> session.slots]]
  ELSE [state |-> "greeting", slots |-> spread(EmptySlots, known),
        weatherCalls |-> [d \in Dates |-> 0], weatherSucceeded |-> FALSE,
        script |-> 0, atStart |-> slots[ScriptTime],
        before |-> [state |-> "greeting", slots |-> EmptySlots]]

\* lines 64-97: the session after the extraction, waiting for the weather
\* when the state is fetching_weather and there is a date
afterExtraction(old, extractionResult, message, known) ==
  [exists |-> TRUE,
   state |-> extractionResult.state,
   slots |-> extractionResult.slots,
   pc |-> IF /\ extractionResult.state = "fetching_weather"
             /\ extractionResult.slots.bookingDate # None
          THEN "weather" ELSE "idle",
   turn |-> [before |-> old.before,
             given |-> old.slots,
             message |-> message,
             known |-> known.has # {},
             slotWasExtracted |-> extractionResult.slotWasExtracted,
             extracted |-> extractionResult.state,
             weather |-> "none"],
   response |-> NoResponse,
   weatherCalls |->
     IF /\ extractionResult.state = "fetching_weather"
        /\ extractionResult.slots.bookingDate # None
     THEN [old.weatherCalls EXCEPT ![extractionResult.slots.bookingDate[1]] =
             IF @ < MaxWeatherCalls THEN @ + 1 ELSE @]
     ELSE old.weatherCalls,
   weatherSucceeded |-> old.weatherSucceeded,
   script |-> IF /\ old.script \in 0 .. Len(Script) - 1
                 /\ known.has = {}
                 /\ message = Script[old.script + 1]
              THEN old.script + 1 ELSE -1,
   atStart |-> old.atStart]

withoutWeather(s) == IF s.pc = "weather" THEN s ELSE respond(s, NoRecommendation)

\* lines 29-80: a message for the session arrives, with the slots the
\* request carries; the session is found or created, the slots extracted,
\* and the weather asked for when the state is fetching_weather
ReceiveFrom(messages, knownSlots, days) ==
  \E message \in messages, known \in knownSlots, currentDay \in days :
    /\ session.exists => session.pc = "idle"
    /\ \E old \in {found(known)} :
         \E extractionResult \in {extractSlots(message, old.slots, old.state, currentDay)} :
           \E s \in {afterExtraction(old, extractionResult, message, known)} :
             session' = withoutWeather(s)
    /\ UNCHANGED <<slotVars, bookings, near, summary, speech>>

ReceiveMessage == ReceiveFrom(Utterances, KnownSlots, Weekdays)

\* a caller who sends no slots and keeps to the utterances that fill the
\* slots or are not understood
PlainUtterances ==
  {Utterance.alex, Utterance.four, Utterance.tomorrow, Utterance.seven_pm,
   Utterance.italian, Utterance.umm}

ReceivePlainMessage ==
  ReceiveFrom(PlainUtterances, {known \in KnownSlots : known.has = {}}, {Least(Weekdays)})

afterWeather_noCatch(s, answer, weatherRecommendation) ==
  [s EXCEPT
     !.state = IF weatherRecommendation.threw THEN s.state ELSE "suggesting_seating",
     !.turn.weather = IF weatherRecommendation.threw THEN "threw"
                      ELSE IF answer.kind = "error" THEN "fallback"
                      ELSE "report",
     !.weatherSucceeded = @ \/ (answer.kind = "report" /\ ~weatherRecommendation.threw)]

\* lines 82-97: the session after the weather service has answered
afterWeather(s, answer, weatherRecommendation) ==
  [s EXCEPT
     !.state = IF weatherRecommendation.threw THEN "confirming" ELSE "suggesting_seating",
     !.turn.weather = IF weatherRecommendation.threw THEN "threw"
                      ELSE IF answer.kind = "error" THEN "fallback"
                      ELSE "report",
     !.weatherSucceeded = @ \/ (answer.kind = "report" /\ ~weatherRecommendation.threw)]

\* lines 82-132: the weather service answers or throws, and the response
\* is sent
WeatherResponds ==
  \E answer \in WeatherAnswers :
    /\ session.exists /\ session.pc = "weather"
    /\ \E weatherRecommendation \in {getWeatherRecommendation(answer)} :
         \E s \in {afterWeather(session, answer, weatherRecommendation)} :
           session' = respond(s, weatherRecommendation)
    /\ UNCHANGED <<slotVars, bookings, near, summary, speech>>

\* the day of the conversation: the bucket of the script's time is absent,
\* open, full or blocked
InitDialogue ==
  /\ InitOthers
  /\ calls = [p \in Procs |-> IdleCall]
  /\ stale = [p \in Procs |-> FALSE]
  /\ budget = 0
  /\ reserved = [t \in BucketTimes |-> [i \in Ids |-> 0]]
  /\ hist = [keep |-> "none", pre |-> NullDoc, done |-> <<>>]
  /\ \E doc \in {NullDoc, newSlot, FullBucket, BlockedBucket} :
       slots = [t \in AllTimes |-> IF t = ScriptTime THEN doc ELSE NullDoc]

DialogueNext == ReceiveMessage \/ WeatherResponds

SpecDialogue == InitDialogue /\ [][DialogueNext]_vars

PlainDialogueNext == ReceivePlainMessage \/ WeatherResponds

\* every request is answered, and the caller keeps talking
SpecDialogueLive ==
  /\ InitDialogue /\ [][PlainDialogueNext]_vars
  /\ WF_vars(ReceivePlainMessage) /\ WF_vars(WeatherResponds)

\* the position of a state in the order of ConversationStates
StateIndex(state) == CHOOSE i \in DOMAIN ConversationStates : ConversationStates[i] = state

\* the required slots that are still empty, by their position
EmptyRequired(slotValues) ==
  {i \in DOMAIN requiredSlots : slotValues[requiredSlots[i]] = None}

AllocationConflict(slotValues) ==
  /\ EmptyRequired(slotValues) = {}
  /\ slotValues.bookingTime[1] \in AllTimes
  /\ ~hasAvailability(slots[slotValues.bookingTime[1]], slotValues.numberOfGuests[1])

Collecting(state) == \E i \in DOMAIN requiredSlots : ConversationStates[i + 1] = state

\* the values of the five required slots
Required(slotValues) == [i \in DOMAIN requiredSlots |-> slotValues[requiredSlots[i]]]

\* the turn just answered came with no slots, found the session in a
\* collecting state, and its message gave no value for the slot of that state
MissedTurn ==
  /\ session.exists /\ session.pc = "idle"
  /\ ~session.turn.known
  /\ Collecting(session.turn.before.state)
  /\ ~session.turn.slotWasExtracted

\* messages with no guest count in them
Unparseable == {Utterance.umm, Utterance.twentyfive, Utterance.birthday}

\* C16 (as stated): a turn whose utterance yields no value for the slot of
\* the current state leaves the session's slots and state unchanged.
C16_MissLeavesSession ==
  MissedTurn =>
    /\ session.slots = session.turn.before.slots
    /\ session.state = session.turn.before.state

\* C16 (amended): such a turn leaves the five required slots and the state
\* unchanged, and a special request already noted stays; a session in
\* collecting_guests that receives an unparseable utterance stays in
\* collecting_guests with the guest count still empty.
C16_MissLeavesRequired ==
  /\ MissedTurn =>
       /\ Required(session.slots) = Required(session.turn.before.slots)
       /\ session.state = session.turn.before.state
       /\ session.turn.before.slots.specialRequests # None =>
            session.slots.specialRequests = session.turn.before.slots.specialRequests
  /\ (/\ session.exists /\ session.pc = "idle"
      /\ session.turn.before.state = "collecting_guests"
      /\ session.turn.message \in Unparseable) =>
       /\ session.state = "collecting_guests"
       /\ session.slots.numberOfGuests = None

\* an unparseable utterance in collecting_guests that names a special
\* request: the request is noted, the state and the guest count stay
C16_Witness ==
  /\ MissedTurn
  /\ session.turn.before.state = "collecting_guests"
  /\ session.turn.message \in Unparseable
  /\ session.turn.before.slots.specialRequests = None
  /\ session.slots.specialRequests # None
  /\ session.state = "collecting_guests"

\* C17: the session state is completed only when the bucket of the
\* session's time holds the party's seats, and a turn that leaves the five
\* required slots filled for a bucket that cannot take the party (full or
\* blocked) ends in collecting_time with bookingTime as the only missing
\* slot.
C17_CompletedOnlyAfterBookSlot ==
  (session.exists /\ session.pc = "idle") =>
    /\ session.state = "completed" =>
         /\ EmptyRequired(session.slots) = {}
         /\ slots[session.slots.bookingTime[1]].booked
              >= session.atStart.booked + session.slots.numberOfGuests[1]
    /\ AllocationConflict(session.slots) =>
         /\ session.state = "collecting_time"
         /\ session.response.missing = <<"bookingTime">>

\* C18: the utterances "I'm Alex", "4", "tomorrow", "7pm", "Italian" sent
\* to a new session, the bucket of 19:00 being empty with capacity 50,
\* leave the session completed and the bucket with 4 more seats booked.
C18_EndToEnd ==
  (/\ session.exists /\ session.pc = "idle"
   /\ session.script = Len(Script)
   /\ session.atStart.capacity = DEFAULT_CAPACITY
   /\ session.atStart.booked = 0 /\ ~session.atStart.isBlocked) =>
    /\ session.state = "completed"
    /\ slots[ScriptTime].booked = session.atStart.booked + Script[2][1].n

\* C19: over the turns of a session, the weather service is called at most
\* once for each booking date.
C19_WeatherOncePerDate ==
  session.exists => \A date \in Dates : session.weatherCalls[date] <= 1

\* the weather call of the turn just answered failed: the request to the
\* weather API failed, or getWeatherRecommendation threw
WeatherFailed ==
  /\ session.exists /\ session.pc = "idle"
  /\ EmptyRequired(session.slots) = {}
  /\ session.turn.weather \in {"fallback", "threw"}

\* C20: if the weather call fails in a session whose five required slots
\* are filled, some turn of the session answers with readyToBook true,
\* unless the weather service has answered with a report meanwhile.
C20_BookableAfterWeatherFailure ==
  WeatherFailed ~>
    (session.exists /\ (session.response.readyToBook \/ session.weatherSucceeded))

\* ------------------------------------------------------------------------
\* Cancel requests only, from every process, on bookings whose seats the
\* bucket of the first time holds.
CancelStep(p) ==
  \/ cancelBooking(p)
  \/ FindSlotToRelease(p)
  \/ SaveReleased(p)
  \/ SaveBooking(p)

CancelNext == \E p \in Procs : CancelStep(p)

CancelTime == generateDaySlots[1]

\* the bucket after bookSlot has been called for each of the bookings ids
RECURSIVE BucketOf(_, _)
BucketOf(ids, guests) ==
  IF ids = <<>> THEN newSlot
  ELSE bookSeats(BucketOf(Tail(ids), guests), guests, Head(ids)).doc

\* every booking is for a small party at the first time, confirmed, pending
\* or cancelled, and the bucket holds the seats of those not cancelled
InitCancel ==
  /\ \E status \in [Ids -> Statuses] :
       /\ bookings = [i \in Ids |->
                        [exists |-> TRUE, numberOfGuests |-> MAX_GUESTS,
                         bookingTime |-> CancelTime, status |-> status[i]]]
       /\ slots = [t \in AllTimes |->
                     IF t = CancelTime
                     THEN BucketOf(SelectSeq([i \in 1 .. NumIds |-> i],
                                             LAMBDA i : status[i] # "cancelled"),
                                   MAX_GUESTS)
                     ELSE NullDoc]
  /\ calls = [p \in Procs |-> IdleCall]
  /\ stale = [p \in Procs |-> FALSE]
  /\ reserved = [t \in BucketTimes |-> [i \in Ids |-> 0]]
  /\ budget = MaxBookingCalls
  /\ hist = [keep |-> "none", pre |-> NullDoc, done |-> <<>>]
  /\ near = NoNear
  /\ summary = NoSummary
  /\ session = NoSession
  /\ speech = NoSpeech

SpecCancel == InitCancel /\ [][CancelNext]_vars

RECURSIVE SeatsHeld(_, _)
SeatsHeld(S, t) ==
  IF S = {} THEN 0
  ELSE LET i == CHOOSE j \in S : TRUE IN
       (IF bookings[i].exists /\ bookings[i].status # "cancelled"
           /\ bookings[i].bookingTime = t
        THEN bookings[i].numberOfGuests ELSE 0) + SeatsHeld(S \ {i}, t)

\* C21: a cancel request on a booking that is already cancelled is rejected
\* without a releaseSlot call, and whatever the interleaving of the cancel
\* requests, once they have all returned the bucket holds exactly the seats
\* of the bookings not cancelled: each cancelled booking's seats were given
\* back once.
C21_ReleasedOnce ==
  /\ \A p \in Procs :
       (calls[p].op = "cancel" /\ calls[p].pc # "idle") => calls[p].arg # "cancelled"
  /\ (\A p \in Procs : calls[p].pc = "idle") =>
       slots[CancelTime].booked = SeatsHeld(Ids, CancelTime)

\* ------------------------------------------------------------------------
\* Requests for one sessionId handled by several invocations of
\* handleAgentMessage. An invocation runs without interruption up to the
\* awaited weather call and from its answer to the response; the session
\* object of the Map is shared, the request's own data are the
\* invocation's.
InFlight == {p \in Procs : calls[p].op = "message" /\ calls[p].pc = "weather"}

\* lines 29-85: the invocation p receives a message, whatever the other
\* invocations are doing
ReceiveConcurrently(p) ==
  \E message \in PlainUtterances, known \in {known \in KnownSlots : known.has = {}} :
    /\ calls[p].pc = "idle"
    /\ \E old \in {found(known)} :
         \E extractionResult \in {extractSlots(message, old.slots, old.state, Least(Weekdays))} :
           \E s \in {afterExtraction(old, extractionResult, message, known)} :
             /\ session' = withoutWeather(s)
             /\ calls' = [calls EXCEPT ![p] =
                            IF s.pc = "weather"
                            THEN [IdleCall EXCEPT !.op = "message", !.pc = "weather",
                                                  !.arg = s.turn]
                            ELSE IdleCall]
    /\ UNCHANGED <<slots, stale, budget, reserved, hist, bookings, near, summary, speech>>

\* lines 85-134: the weather call of the invocation p returns or throws; the
\* invocation goes on with the session object as it is now
WeatherRespondsTo(p) ==
  \E answer \in WeatherAnswers :
    /\ p \in InFlight
    /\ \E weatherRecommendation \in {getWeatherRecommendation(answer)} :
         \E s \in {afterWeather([session EXCEPT !.turn = calls[p].arg],
                                answer, weatherRecommendation)} :
           session' = respond(s, weatherRecommendation)
    /\ calls' = [calls EXCEPT ![p] = IdleCall]
    /\ UNCHANGED <<slots, stale, budget, reserved, hist, bookings, near, summary, speech>>

TurnsNext == \E p \in Procs : ReceiveConcurrently(p) \/ WeatherRespondsTo(p)

SpecTurns == InitDialogue /\ [][TurnsNext]_vars

\* the states a turn leaves in the session when it has responded
TurnEndStates ==
  {"collecting_name", "collecting_guests", "collecting_date", "collecting_time",
   "collecting_cuisine", "confirming"}

\* C22: two messages of the session are never processed at once: at most
\* one invocation is between its read of the session and its response, and
\* the state a turn reads is the state a finished turn (or the creation of
\* the session) has left, never the fetching_weather of a turn that is
\* still waiting for the weather.
C22_TurnsSequential ==
  /\ Cardinality(InFlight) <= 1
  /\ \A p \in InFlight :
       calls[p].arg.before.state \in TurnEndStates \cup {"greeting"}

\* ------------------------------------------------------------------------
\* The required slots that the extraction of the last turn has changed: the
\* session's slots against the slots handed to extractSlots (the session's
\* with the request's merged in).
ChangedByExtraction ==
  {f \in Range(requiredSlots) : session.slots[f] # session.turn.given[f]}

\* the required slot that a collecting state asks for
OwnedBy(state) ==
  IF Collecting(state) THEN {requiredSlots[StateIndex(state) - 1]} ELSE {}

\* C23 as stated: the extraction of a turn changes at most the required
\* slot owned by the state the turn started in (greeting, a control state,
\* owns none), and only if that slot was empty.
C23_ExtractionFrame ==
  session.exists =>
    \A f \in ChangedByExtraction :
      /\ f \in OwnedBy(session.turn.before.state)
      /\ session.turn.given[f] = None

\* C23 amended: the extraction of a turn changes at most one required slot,
\* the one owned by the state the turn started in, customerName for a turn
\* started in greeting, and only if that slot was empty; every other
\* required slot is as it was handed to the extraction.
C23_ExtractionFrameFromGreeting ==
  session.exists =>
    /\ Cardinality(ChangedByExtraction) <= 1
    /\ \A f \in ChangedByExtraction :
         /\ f \in OwnedBy(IF session.turn.before.state = "greeting"
                          THEN "collecting_name" ELSE session.turn.before.state)
         /\ session.turn.given[f] = None

\* a turn started in collecting_time with the name, the guests and the date
\* filled has filled the time and nothing else
C23_Witness ==
  /\ session.exists
  /\ session.turn.before.state = "collecting_time"
  /\ ChangedByExtraction = {"bookingTime"}
  /\ session.turn.given.customerName # None
  /\ session.slots.customerName = session.turn.given.customerName

\* extractName gives no name for an utterance in a state other than greeting
\* and collecting_name
NameOnlyWhenAsked ==
  \A message \in Utterances :
    \A state \in Range(ConversationStates) \ {"greeting", "collecting_name"} :
      extractName(normalize(message), state) = None

\* C24 as stated: customerName is set only by a turn that started in
\* collecting_name.
C24_NameOnlyInCollectingName ==
  session.exists =>
    ("customerName" \in ChangedByExtraction =>
       session.turn.before.state = "collecting_name")

\* C24 amended: the name is extracted only while the session is in greeting
\* or collecting_name; an utterance received in any other state never sets
\* customerName.
C24_NameOnlyInGreetingOrCollectingName ==
  /\ NameOnlyWhenAsked
  /\ session.exists =>
       ("customerName" \in ChangedByExtraction =>
          session.turn.before.state \in {"greeting", "collecting_name"})

\* the first message of a session, "I'm Alex", has set the name
C24_Witness ==
  /\ session.exists
  /\ session.turn.before.state = "greeting"
  /\ session.turn.message = Utterance.alex
  /\ session.slots.customerName = Some(<<"Alex">>)

\* ------------------------------------------------------------------------
\* the turn of the session has been answered
TurnEnded == session.exists /\ session.pc = "idle"

DaysOfWeek == 0 .. 6

Qualifiers == {"next", "agle", "agla"}

NamedWeekday(k) == <<Word(dayNames[k][1])>>

NextWeekday(qualifier, k) == <<Word(qualifier), Space, Word(dayNames[k][1])>>

WeekdayUtterances ==
  {NamedWeekday(k) : k \in DOMAIN dayNames}
    \cup {NextWeekday(qualifier, k) : qualifier \in Qualifiers, k \in DOMAIN dayNames}

\* the session after the caller has given the name and the party size
AskedForDate ==
  LET given == [EmptySlots EXCEPT !.customerName = Some(<<"Alex">>)]
      filled == [given EXCEPT !.numberOfGuests = Some(4)] IN
  [exists |-> TRUE, state |-> "collecting_date", slots |-> filled, pc |-> "idle",
   turn |-> [before |-> [state |-> "collecting_guests", slots |-> given],
             given |-> given, message |-> Utterance.four, known |-> FALSE,
             slotWasExtracted |-> TRUE, extracted |-> "collecting_date",
             weather |-> "none"],
   response |-> [reply |-> generateResponse("collecting_date", filled),
                 missing |-> getMissingSlots(filled),
                 seatingRecommendation |-> "none", readyToBook |-> FALSE],
   weatherCalls |-> [d \in Dates |-> 0], weatherSucceeded |-> FALSE,
   script |-> 2, atStart |-> NullDoc]

InitWeekdays ==
  /\ session = AskedForDate
  /\ slots = [t \in AllTimes |-> NullDoc]
  /\ calls = [p \in Procs |-> IdleCall]
  /\ stale = [p \in Procs |-> FALSE]
  /\ budget = 0
  /\ reserved = [t \in BucketTimes |-> [i \in Ids |-> 0]]
  /\ hist = [keep |-> "none", pre |-> NullDoc, done |-> <<>>]
  /\ bookings = [i \in Ids |-> NullBooking]
  /\ near = NoNear
  /\ summary = NoSummary
  /\ speech = NoSpeech

\* handleAgentMessage for a message that names a weekday, on the weekday
\* currentDay, which the turn keeps beside the message
ReceiveWeekday ==
  \E message \in WeekdayUtterances, currentDay \in DaysOfWeek :
    /\ session.exists /\ session.pc = "idle"
    /\ session.state = "collecting_date"
    /\ \E old \in {found([has |-> {}, slots |-> EmptySlots])} :
         \E read \in {extractionOf(message, {currentDay})} :
           \E extractionResult \in {extractSlotsFrom(read, old.slots, old.state, currentDay)} :
             \E s \in {withoutWeather(afterExtraction(old, extractionResult, message,
                                                      [has |-> {}, slots |-> EmptySlots]))} :
               session' = [s EXCEPT !.turn = @ @@ [currentDay |-> currentDay]]
    /\ UNCHANGED <<slotVars, bookings, near, summary, speech>>

SpecWeekdays == InitWeekdays /\ [][ReceiveWeekday]_vars

\* the date that the turn has stored, in days after the day of the call,
\* for the message "<qualifier> <day name k>"
ResolvedNext(qualifier, k) ==
  /\ session.turn.message = NextWeekday(qualifier, k)
  /\ "currentDay" \in DOMAIN session.turn

\* C25 as stated: on every weekday, "next <weekday>" is stored as a date at
\* least 7 days after the day of the call.
C25_NextWeekdayAWeekAway ==
  \A qualifier \in Qualifiers, k \in DOMAIN dayNames :
    ResolvedNext(qualifier, k) =>
      /\ session.slots.bookingDate # None
      /\ session.slots.bookingDate[1] >= 7

\* C25 amended: "next <weekday>" is stored as a date at least 7 days after
\* the day of the call when the named weekday is the current one or comes
\* later in the week (Sunday first); when it comes earlier in the week it is
\* stored as its next occurrence, 1 to 6 days after the day of the call.
C25_NextWeekdayFromToday ==
  \A qualifier \in Qualifiers, k \in DOMAIN dayNames :
    ResolvedNext(qualifier, k) =>
      /\ session.slots.bookingDate # None
      /\ session.slots.bookingDate[1] = dayNames[k][2] - session.turn.currentDay + 7
      /\ dayNames[k][2] >= session.turn.currentDay => session.slots.bookingDate[1] >= 7
      /\ dayNames[k][2] < session.turn.currentDay => session.slots.bookingDate[1] \in 1 .. 6

\* "next friday" said on a Monday is stored as the Friday 11 days later
C25_Witness ==
  /\ ResolvedNext("next", 19)
  /\ dayNames[19] = <<"friday", 5>>
  /\ session.turn.currentDay = 1
  /\ session.slots.bookingDate = Some(11)
  /\ session.state = "collecting_time"

\* ------------------------------------------------------------------------
\* the seats granted under the ids of S in the bucket t and not given back
RECURSIVE GrantedTo(_, _)
GrantedTo(S, t) ==
  IF S = {} THEN 0
  ELSE LET id == CHOOSE i \in S : TRUE IN reserved[t][id] + GrantedTo(S \ {id}, t)

\* C27: after any sequence of bookSlot and releaseSlot calls on a bucket,
\* booked is the sum of the guest counts reserved under the ids that
\* bookingIds lists, and bookingIds lists no id twice.
C27_BookedIsSumOfListed ==
  \A t \in BucketTimes :
    slots[t].exists =>
      /\ slots[t].booked = GrantedTo(Range(slots[t].bookingIds), t)
      /\ Cardinality(Range(slots[t].bookingIds)) = Len(slots[t].bookingIds)

\* ------------------------------------------------------------------------
\* Looks that create buckets (checkAvailability, findNearestAvailableSlots)
\* among bookSlot calls and a getAvailabilitySummary call, one call at a
\* time, on a day that starts without buckets.
LazyStep(p) ==
  \/ checkAvailability(p)
  \/ bookSlot(p)
  \/ InsertSlot(p)
  \/ SaveBooked(p)

findNearestNow ==
  /\ calls[1].pc = "idle"
  /\ findNearestFrom({OPENING_TIME, CLOSING_TIME}, {SmallParty, LargeParty},
                     {MaxResults})

getAvailabilitySummaryNow == calls[1].pc = "idle" /\ getAvailabilitySummary

LazyNext == LazyStep(1) \/ findNearestNow \/ getAvailabilitySummaryNow

MaxLazyCalls == 2

InitLazy ==
  /\ InitSlots
  /\ budget = MaxLazyCalls
  /\ InitOthers
  /\ hist = [keep |-> "calls", pre |-> NullDoc, done |-> <<>>]

SpecLazy == InitLazy /\ [][LazyNext]_vars

\* the store had no look created a bucket: a bucket as getOrCreateSlot
\* creates it, never booked or blocked since, is absent
Uncreated(store) ==
  [t \in AllTimes |-> IF store[t] = newSlot THEN NullDoc ELSE store[t]]

\* a step of a checkAvailability call of p
CheckStep(p) ==
  \/ calls[p].op = "check" /\ calls[p].pc # "idle"
  \/ calls[p].pc = "idle" /\ calls'[p] # calls[p] /\ calls'[p].op = "check"

\* the outcome of a finished checkAvailability or bookSlot call e is the
\* outcome on the bucket doc
OutcomeOn(e, doc) ==
  /\ e.op = "check" =>
       /\ e.ret = IF hasAvailability(doc, e.guests) THEN "true" ELSE "false"
       /\ e.post = [doc EXCEPT !.exists = TRUE]
  /\ e.op = "book" =>
       /\ e.ret = IF hasAvailability(doc, e.guests) THEN "success" ELSE "failure"
       /\ e.post = IF hasAvailability(doc, e.guests)
                   THEN bookSeats([doc EXCEPT !.exists = TRUE], e.guests, e.id).doc
                   ELSE [doc EXCEPT !.exists = TRUE]

\* C28: the buckets that checkAvailability and findNearestAvailableSlots
\* create are not observable: these calls change the store by new empty
\* buckets only, getAvailabilitySummary returns what it returns on the
\* store without the buckets created by looks, and a later
\* checkAvailability or bookSlot returns and stores the same on a bucket
\* created by a look as on a missing one.
C28_LazyCreationUnobservable ==
  [][/\ (near' # near \/ CheckStep(1)) => Uncreated(slots') = Uncreated(slots)
     /\ summary' # summary => summary' = summaryOf(Uncreated(slots))
     /\ \A i \in DOMAIN hist'.done :
          OutcomeOn(hist'.done[i],
                    IF hist'.done[i].pre = newSlot THEN NullDoc ELSE hist'.done[i].pre)]_vars

\* the summary was taken after findNearestAvailableSlots had created
\* buckets, and a bookSlot has succeeded on a bucket that a look had created
C28_Witness ==
  /\ near.called /\ summary.called
  /\ \E t \in AllTimes : slots[t] = newSlot
  /\ \E i \in DOMAIN hist.done :
       /\ hist.done[i].op = "book" /\ hist.done[i].ret = "success"
       /\ hist.done[i].pre = newSlot

\* ------------------------------------------------------------------------
\* The speech service of the browser page (speechService.ts).  The
\* recognition engine is started by recognition.start() and fires onend
\* some time after it has ended or was stopped or aborted; the synthesis
\* engine holds a queue of utterances, synthesis.speaking while the queue is
\* not empty, and cancel() empties the queue and fires an event on each
\* utterance removed.  Timers and events run one at a time, in any order.
MaxPending == 2

backVars == <<slotVars, bookings, near, dialogVars>>

synthesisSpeaking(s) == s.queued > 0

\* lines 137-178: startListening; alreadyStarted tells whether the message
\* of the error that recognition.start() throws on a running engine
\* includes 'already started' (it depends on the browser)
startListening(s, alreadyStarted) ==
  IF s.isSpeaking \/ synthesisSpeaking(s) THEN s
  ELSE IF s.isListening THEN s
  ELSE IF ~s.recognizing
       THEN [s EXCEPT !.onResultCallback = TRUE, !.recognizing = TRUE,
                      !.isListening = TRUE, !.autoMode = TRUE]
       ELSE [s EXCEPT !.onResultCallback = TRUE, !.isListening = alreadyStarted]

\* the page calls startListening (the microphone button)
StartListening ==
  \E alreadyStarted \in BOOLEAN :
    /\ speech' = [startListening(speech, alreadyStarted) EXCEPT !.stopped = FALSE]
    /\ UNCHANGED backVars

\* lines 183-197: stopListening; recognition.stop() lets the engine end
StopListening ==
  /\ speech' = [speech EXCEPT !.autoMode = FALSE, !.isListening = FALSE,
                              !.stopped = TRUE]
  /\ UNCHANGED backVars

\* setTimeout(..., delay) of an auto-restart
scheduled(s, timer) == [s EXCEPT !.timers[timer] = @ + 1]

\* lines 101-123: recognition.onend
RecognitionEnds ==
  /\ speech.recognizing
  /\ speech.timers.recognitionEnd < MaxPending
  /\ \E s \in {[speech EXCEPT !.recognizing = FALSE, !.isListening = FALSE]} :
       speech' = IF s.autoMode /\ ~s.isSpeaking /\ ~synthesisSpeaking(s)
                 THEN scheduled(s, "recognitionEnd") ELSE s
  /\ UNCHANGED backVars

\* lines 108-121: the timer set by recognition.onend fires
RecognitionTimerFires ==
  \E alreadyStarted \in BOOLEAN :
    /\ speech.timers.recognitionEnd > 0
    /\ \E s \in {[speech EXCEPT !.timers.recognitionEnd = @ - 1]} :
         speech' = IF ~s.isSpeaking /\ ~synthesisSpeaking(s) /\ s.autoMode
                   THEN startListening(s, alreadyStarted) ELSE s
    /\ UNCHANGED backVars

\* lines 210-293: speak, up to the wait after synthesis.cancel() when
\* something is being spoken, else to synthesis.speak(utterance)
Speak ==
  /\ speech.waiting < MaxPending
  /\ speech.interrupted + speech.queued <= MaxPending
  /\ \E s \in {[speech EXCEPT !.isSpeaking = TRUE, !.isListening = FALSE]} :
       speech' = IF synthesisSpeaking(s)
                 THEN [s EXCEPT !.interrupted = @ + s.queued, !.queued = 0,
                                !.waiting = @ + 1]
                 ELSE [s EXCEPT !.queued = 1]
  /\ UNCHANGED backVars

\* lines 232-292: the 200 ms wait of a speak call is over
SpeakContinues ==
  /\ speech.waiting > 0
  /\ speech.queued < MaxPending
  /\ speech' = [speech EXCEPT !.waiting = @ - 1, !.queued = @ + 1]
  /\ UNCHANGED backVars

\* lines 243-289: utterance.onend and utterance.onerror
utteranceOver(s, timer) ==
  LET cleared == [s EXCEPT !.isSpeaking = FALSE] IN
  IF cleared.autoMode /\ cleared.onResultCallback THEN scheduled(cleared, timer)
  ELSE cleared

\* the utterance being spoken ends (onend) or fails (onerror)
UtteranceEnds ==
  \E timer \in {"speechEnd", "speechError"} :
    /\ speech.queued > 0
    /\ speech.timers[timer] < MaxPending
    /\ speech' = utteranceOver([speech EXCEPT !.queued = @ - 1], timer)
    /\ UNCHANGED backVars

\* the event of an utterance that cancel() has removed: error in the
\* browsers that follow the standard, end in others
UtteranceInterrupted ==
  \E timer \in {"speechEnd", "speechError"} :
    /\ speech.interrupted > 0
    /\ speech.timers[timer] < MaxPending
    /\ speech' = utteranceOver([speech EXCEPT !.interrupted = @ - 1], timer)
    /\ UNCHANGED backVars

\* lines 253-263 and 275-287: a timer set by utterance.onend or
\* utterance.onerror fires
SpeechTimerFires ==
  \E timer \in {"speechEnd", "speechError"}, alreadyStarted \in BOOLEAN :
    /\ speech.timers[timer] > 0
    /\ \E s \in {[speech EXCEPT !.timers[timer] = @ - 1]} :
         speech' = IF ~s.isSpeaking /\ ~synthesisSpeaking(s)
                   THEN startListening(s, alreadyStarted) ELSE s
    /\ UNCHANGED backVars

\* lines 298-301: stopSpeaking
StopSpeaking ==
  /\ speech.interrupted + speech.queued <= MaxPending
  /\ speech' = [speech EXCEPT !.isSpeaking = FALSE, !.interrupted = @ + speech.queued,
                              !.queued = 0]
  /\ UNCHANGED backVars

InitSpeech ==
  /\ InitSlots
  /\ budget = 0
  /\ hist = [keep |-> "none", pre |-> NullDoc, done |-> <<>>]
  /\ InitOthers

SpeechNext ==
  \/ StartListening
  \/ StopListening
  \/ RecognitionEnds
  \/ RecognitionTimerFires
  \/ Speak
  \/ SpeakContinues
  \/ UtteranceEnds
  \/ UtteranceInterrupted
  \/ SpeechTimerFires
  \/ StopSpeaking

SpecSpeech == InitSpeech /\ [][SpeechNext]_vars

\* C26: recognition never listens while the synthesis speaks: whenever
\* isListening is true, isSpeaking is false and nothing is being spoken, also
\* after one speak call has interrupted another, so that no start of the
\* recognition got through during speech.
C26_NoListeningWhileSpeaking ==
  speech.isListening => ~speech.isSpeaking /\ ~synthesisSpeaking(speech)

\* C30: from stopListening until the page calls startListening again, no
\* timer or event starts the recognition, sets isListening or sets autoMode
\* back to true.
C30_StoppedStaysStopped ==
  [][(speech.stopped /\ speech'.stopped) =>
       /\ speech'.recognizing => speech.recognizing
       /\ ~speech'.isListening
       /\ ~speech'.autoMode]_vars

====
